---------------------------- MODULE Spec2Model ----------------------------
(***************************************************************************)
(* A model of the particle core of gnp_pygame: the emission rate policies  *)
(* (gnpparticle.py), the ActorList reap-list (gnppygame.py), the simple    *)
(* actors of gnpactor.py, and the Emitter that is built from them.         *)
(*                                                                         *)
(* Time.  Every time value (a frame delta, an emit delay, a lifetime) is   *)
(* an integer number of ticks, one tick being a power-of-two fraction of a *)
(* second.  On such values Python's float +, - and * are exact and         *)
(* int(a / b) is the truncated quotient, so the integer arithmetic below   *)
(* is the arithmetic of the code.                                          *)
(*                                                                         *)
(* Exceptions.  An operation that raises (an AssertionError of an assert,  *)
(* the AttributeError of a missing method) stops where it raises: what it  *)
(* changed before that point stays changed, and err names the exception.   *)
(***************************************************************************)
EXTENDS Integers, Sequences, FiniteSets

VARIABLES
    rate,        \* the EmitterRate object under test, or the Emitter's _rate_obj
    hist,        \* history of the how_many calls made on rate
    em,          \* the Emitter: its position, its policies, _can_emit
    particles,   \* the Emitter's _particles, an ActorList of Particle objects
    emh,         \* history of the Emitter: the steps that ran (got past the first
                 \* assert of Emitter.step), those of them run while stopped,
                 \* the time stepped while emitting
    actors,      \* an ActorList (a Python list of actor objects)
    nextId,      \* identity of the next object constructed
    lastOp,      \* the last operation called: "init", "step", "draw", ...
    called,      \* ids of the actors whose step() / draw() / reap() the last
                 \* ActorList operation called, in call order
    justDied,    \* ids whose can_reap() turned true inside the last step
    everDied,    \* ids whose can_reap() turned true inside any step so far
    lastDt,      \* the time_delta of the last operation, 0 when it took none
    clock,       \* sum of the time_delta of the steps that ran
    err,         \* exception raised by the last operation, "none" if it returned
    elapsed_seconds, \* TimerManager._elapsed_seconds
    timers,      \* TimerManager._timers, a list of (trigger_time, callback)
    tmh,         \* history of the TimerManager: what was registered, how often
                 \* each registration fired, what the last step fired
    range,       \* a cRange object
    included,    \* the values Include was called with on range so far
    args,        \* the arguments of the last call of a function or query
    ret,         \* what that call returned, "none" if it returned nothing or raised
    watcher,     \* an AxisWatcher: _axisLast, _press_thresh, _reset_thresh
    axh,         \* history of the AxisWatcher: per joystick, axis and direction,
                 \* the kind of the last event synthesized
    game,        \* a GameWithStates: __state, __pending_state
    gpc,         \* where the game is: "idle", or "in_step" while the step() of
                 \* its current state runs
    gmh,         \* history of the game: states installed, begin_state calls
    frame,       \* parity of the number of frames the frame loop has run
    request_exit, \* Game._request_exit: the frame loop ends when it is set
    holder,      \* a HoldWatcher: _holdTimers
    hwh          \* history of the HoldWatcher: per input, the time since its
                 \* press and the HOLD events posted for it

rateVars == <<rate, hist>>
emVars == <<em, particles, emh>>
listVars == <<actors, nextId, called, justDied, everDied, lastDt, clock>>
timerVars == <<elapsed_seconds, timers, tmh>>
rangeVars == <<range, included>>
callVars == <<args, ret>>
coreVars == <<rateVars, emVars, listVars>>
axisVars == <<watcher, axh>>
gameVars == <<game, gpc, gmh>>
loopVars == <<frame, request_exit>>
holdVars == <<holder, hwh>>
utilVars == <<timerVars, rangeVars, callVars, axisVars, gameVars, loopVars, holdVars>>
vars == <<rate, hist, em, particles, emh, actors, nextId, lastOp, called, justDied,
          everDied, lastDt, clock, err, utilVars>>

----------------------------------------------------------------------------
(* Bounds of the model *)

MaxDt == 3
MaxCalls == 4
MaxTime == 7
MaxDelay == 3
MaxBurst == 2
MaxActors == 3
MaxLife == 2
MaxSteps == 3
MaxParticles == 3
MaxClock == 3
MaxTimers == 3
MaxElapsed == 4
MaxValue == 3

DtValues == 0..MaxDt

----------------------------------------------------------------------------
(* Python arithmetic *)

\* int(x / d) for d > 0: int() truncates toward zero.
PyIntDiv(x, d) == IF x >= 0 THEN x \div d ELSE -((-x) \div d)

----------------------------------------------------------------------------
(* gnpparticle.py: emission rate policies *)

\* One record shape for every EmitterRate subclass; a subclass leaves the
\* fields it does not have at 0 / FALSE.
RateObj(kind, n, delay, lo, hi, life) ==
    [kind |-> kind, num_particles |-> n, is_complete |-> FALSE,
     delta_carryover |-> 0, emitDelay |-> delay, lo |-> lo, hi |-> hi,
     emitter_lifetime_remaining |-> life]

EmitterRate_Burst(n) == RateObj("Burst", n, 0, 0, 0, 0)
EmitterRate_DelayConstant(delay) == RateObj("DelayConstant", 0, delay, 0, 0, 0)
EmitterRate_DelayRange(lo, hi) == RateObj("DelayRange", 0, 0, lo, hi, 0)
EmitterRate_DelayRangeWithLifetime(lo, hi, life) ==
    RateObj("DelayRangeWithLifetime", 0, 0, lo, hi, life)

Burst_is_complete(r) == r.is_complete

\* is_complete of the countdown policy, taken over by the policies that have
\* no countdown.
Rate_is_complete_Countdown(r) ==
    IF r.kind = "Burst" THEN Burst_is_complete(r)
    ELSE r.emitter_lifetime_remaining <= 0

Rate_is_complete(r) ==
    CASE r.kind = "Burst" -> Burst_is_complete(r)
      [] r.kind = "DelayConstant" -> FALSE
      [] r.kind = "DelayRange" -> FALSE
      [] r.kind = "DelayRangeWithLifetime" -> r.emitter_lifetime_remaining <= 0

\* _get_delay: the values one call can return. random.uniform(lo, hi) is drawn
\* again on every call; the model draws among the ticks of [lo, hi].
Rate_get_delay(r) ==
    IF r.kind = "DelayConstant" THEN {r.emitDelay} ELSE r.lo .. r.hi

Burst_how_many_NoFlag(r, dt) == [rate |-> r, count |-> r.num_particles]

Burst_how_many(r, dt) ==
    [rate |-> [r EXCEPT !.is_complete = TRUE], count |-> r.num_particles]

DelayBase_how_many_Rounds(r, dt, delay) ==
    LET total == dt + r.delta_carryover
        cnt == PyIntDiv(2 * total + delay, 2 * delay)
    IN  [rate |-> [r EXCEPT !.delta_carryover = total - cnt * delay], count |-> cnt]

DelayBase_how_many_Naive(r, dt, delay) ==
    LET cnt == PyIntDiv(dt, delay)
    IN  [rate |-> [r EXCEPT !.delta_carryover = dt - cnt * delay], count |-> cnt]

\* EmitterRate_DelayBase.how_many, delay being what _get_delay() returned.
DelayBase_how_many(r, dt, delay) ==
    LET total_time == dt + r.delta_carryover
        emit_count == PyIntDiv(total_time, delay)
    IN  [rate |-> [r EXCEPT !.delta_carryover = total_time - emit_count * delay],
         count |-> emit_count]

DelayConstant_how_many(r, dt, delay) == DelayBase_how_many(r, dt, delay)

\* A how_many that forgets to run the countdown.
WithLifetime_how_many_NoCountdown(r, dt, delay) == DelayBase_how_many(r, dt, delay)

\* EmitterRate_DelayRangeWithLifetime.how_many
WithLifetime_how_many(r, dt, delay) ==
    DelayBase_how_many(
        [r EXCEPT !.emitter_lifetime_remaining = r.emitter_lifetime_remaining - dt],
        dt, delay)

\* how_many(dt) dispatched on the class of r.
Rate_how_many(r, dt, delay) ==
    CASE r.kind = "Burst" -> Burst_how_many(r, dt)
      [] r.kind = "DelayConstant" -> DelayConstant_how_many(r, dt, delay)
      [] r.kind = "DelayRange" -> DelayBase_how_many(r, dt, delay)
      [] r.kind = "DelayRangeWithLifetime" -> WithLifetime_how_many(r, dt, delay)

\* The delay a how_many call needs: Burst never calls _get_delay.
DelayChoices(r) == IF r.kind = "Burst" THEN {0} ELSE Rate_get_delay(r)

\* The rate policies a run starts from.
RateObjects ==
    {EmitterRate_Burst(n) : n \in 1..MaxBurst}
    \cup {EmitterRate_DelayConstant(d) : d \in 1..MaxDelay}
    \cup {EmitterRate_DelayRange(1, 2)}
    \cup {EmitterRate_DelayRangeWithLifetime(1, 2, l) : l \in 1..2}

NoHist ==
    [calls |-> 0, lastDt |-> 0, lastCount |-> 0, prevCarry |-> 0, sumDt |-> 0,
     sumCount |-> 0, firstCount |-> 0, callsWhenComplete |-> 0, lastDelay |-> 0]

\* hist after a how_many(dt) call on r that returned cnt, delay being what its
\* _get_delay() call returned (0 for a Burst, which makes no such call).
Recorded(h, r, dt, cnt, delay) ==
    [calls |-> h.calls + 1, lastDt |-> dt, lastCount |-> cnt,
     prevCarry |-> r.delta_carryover, sumDt |-> h.sumDt + dt,
     sumCount |-> h.sumCount + cnt,
     firstCount |-> IF h.calls = 0 THEN cnt ELSE h.firstCount,
     callsWhenComplete |-> h.callsWhenComplete + IF Rate_is_complete(r) THEN 1 ELSE 0,
     lastDelay |-> delay]

\* The history of an Emitter nothing was called on: the steps that ran, those
\* of them taken while stopped, the time stepped while can_emit was true and
\* the emitter_lifetime its rate policy was constructed with.
NoEmHist == [steps |-> 0, stoppedSteps |-> 0, emitDt |-> 0, life0 |-> 0]

\* No Emitter was constructed.
IdleEmitter ==
    /\ em = "none"
    /\ particles = <<>>
    /\ emh = NoEmHist

\* No ActorList operation was called.
IdleList ==
    /\ actors = <<>>
    /\ nextId = 1
    /\ called = <<>>
    /\ justDied = {}
    /\ everDied = {}
    /\ lastDt = 0
    /\ clock = 0

\* No TimerManager was constructed.
IdleTimers ==
    /\ elapsed_seconds = 0
    /\ timers = <<>>
    /\ tmh = [reg |-> <<>>, fires |-> <<>>, log |-> <<>>]

\* No cRange was constructed.
IdleRange ==
    /\ range = "none"
    /\ included = {}

\* No function or query was called.
IdleCall ==
    /\ args = <<>>
    /\ ret = "none"

\* No AxisWatcher was constructed.
IdleAxis ==
    /\ watcher = "none"
    /\ axh = "none"

\* No GameWithStates was constructed.
IdleGame ==
    /\ game = "none"
    /\ gpc = "idle"
    /\ gmh = "none"

\* No frame loop ran.
IdleLoop == frame = 0 /\ request_exit = FALSE

\* No HoldWatcher was constructed.
IdleHold ==
    /\ holder = "none"
    /\ hwh = "none"

IdleUtil ==
    /\ IdleTimers
    /\ IdleRange
    /\ IdleCall
    /\ IdleAxis
    /\ IdleGame
    /\ IdleLoop
    /\ IdleHold

----------------------------------------------------------------------------
(* SpecRate: a rate policy driven directly by how_many(dt) calls *)

InitRate ==
    /\ rate \in RateObjects
    /\ hist = NoHist
    /\ lastOp = "init"
    /\ err = "none"
    /\ IdleEmitter
    /\ IdleList
    /\ IdleUtil

HowMany(dt) ==
    /\ hist.calls < MaxCalls
    /\ hist.sumDt + dt <= MaxTime
    /\ \E delay \in DelayChoices(rate) :
          LET res == Rate_how_many(rate, dt, delay)
          IN  /\ rate' = res.rate
              /\ hist' = Recorded(hist, rate, dt, res.count, delay)
    /\ lastOp' = "how_many"
    /\ UNCHANGED <<emVars, listVars, err>>
    /\ UNCHANGED utilVars

NextRate == \E dt \in DtValues : HowMany(dt)

SpecRate == InitRate /\ [][NextRate]_vars

----------------------------------------------------------------------------
(* Claims on the rate policies *)

\* C1: on a DelayConstant(delay) policy, delay > 0, carryover 0 at first, each
\* how_many(dt) with dt >= 0 returns count = floor((dt + carryover) / delay),
\* i.e. count*delay <= dt + carryover < (count+1)*delay, and leaves
\* carryover = (dt + carryover) - count*delay.
C1_DelayConstantCount ==
    (rate.kind = "DelayConstant" /\ hist.calls > 0) =>
        LET total == hist.lastDt + hist.prevCarry
        IN  /\ hist.lastCount * rate.emitDelay <= total
            /\ total < (hist.lastCount + 1) * rate.emitDelay
            /\ rate.delta_carryover = total - hist.lastCount * rate.emitDelay

C1_Witness ==
    /\ rate.kind = "DelayConstant"
    /\ hist.calls >= 2
    /\ hist.prevCarry > 0
    /\ hist.lastCount >= 1
    /\ rate.delta_carryover > 0

\* C2: the counts returned by a DelayConstant(delay) policy over frames that
\* sum to T add up to floor(T / delay) within 1, however T is split.
C2_AccumulatorConvergence ==
    rate.kind = "DelayConstant" =>
        LET expected == hist.sumDt \div rate.emitDelay
        IN  /\ hist.sumCount >= expected - 1
            /\ hist.sumCount <= expected + 1

C2_Witness ==
    /\ rate.kind = "DelayConstant"
    /\ rate.emitDelay = 3
    /\ hist.calls >= 3
    /\ hist.lastDt < rate.emitDelay
    /\ hist.sumCount >= 2

\* C9: a Burst(n) policy reports is_complete() false as long as how_many was
\* never called and true ever after the first call, which returns n.
C9_BurstCompletion ==
    rate.kind = "Burst" =>
        /\ (hist.calls = 0 => ~Rate_is_complete(rate))
        /\ (hist.calls > 0 => Rate_is_complete(rate) /\ hist.firstCount = rate.num_particles)

C9_Witness ==
    /\ rate.kind = "Burst"
    /\ hist.calls >= 2
    /\ Rate_is_complete(rate)
    /\ hist.firstCount = rate.num_particles

----------------------------------------------------------------------------
(* Vectors (gnipMath.cVector2) with integer components *)

VecAdd(a, b) == <<a[1] + b[1], a[2] + b[2]>>
VecScale(a, k) == <<a[1] * k, a[2] * k>>
VecSub(a, b) == <<a[1] - b[1], a[2] - b[2]>>

Abs(x) == IF x < 0 THEN 0 - x ELSE x

RECURSIVE Gcd(_, _)
Gcd(a, b) == IF b = 0 THEN a ELSE Gcd(b, a % b)

\* The interpreters the package admits (python_requires >= 2.7): Python 2,
\* which it is written for, and Python 3.
PythonVersions == {2, 3}

\* A vector with components that are not whole is a whole vector over a
\* positive whole number: [ret |-> <<3, 4>>, over |-> 5] is (0.6, 0.8). It is
\* kept in lowest terms, so a whole vector has over = 1.
Fraction(v, d) ==
    LET g == Gcd(Gcd(Abs(v[1]), Abs(v[2])), Abs(d))
        sign == IF d < 0 THEN -1 ELSE 1
    IN  [ret |-> <<(sign * v[1]) \div g, (sign * v[2]) \div g>>,
         over |-> Abs(d) \div g, err |-> "none"]

Raised(e) == [ret |-> <<>>, over |-> 1, err |-> e]

\* cVector2.Magnitude, for the vectors of the model, whose length is whole.
cVector2_Magnitude(v) ==
    CHOOSE n \in 0..(Abs(v[1]) + Abs(v[2])) : n * n = v[1] * v[1] + v[2] * v[2]

\* vector / scalar. cVector2 defines __div__ and no __truediv__: Python 2
\* calls __div__, which multiplies by 1.0 / rhs; Python 3 finds no method for
\* the operator and raises TypeError.
cVector2_div(v, rhs, py) ==
    IF py = 3 THEN Raised("TypeError")
    ELSE IF rhs = 0 THEN Raised("ZeroDivisionError")
    ELSE Fraction(v, rhs)

\* cVector2.Normalize: asserts that the magnitude is not 0, then divides the
\* vector by it.
cVector2_Normalize(v, py) ==
    IF cVector2_Magnitude(v) = 0 THEN Raised("AssertionError")
    ELSE cVector2_div(v, cVector2_Magnitude(v), py)

\* cVector2.NormalizeSafe: a zero vector is returned as it is.
cVector2_NormalizeSafe(v, py) ==
    IF v[1] = 0 /\ v[2] = 0 THEN Fraction(v, 1) ELSE cVector2_Normalize(v, py)
ZeroVec == <<0, 0>>

----------------------------------------------------------------------------
(* Actor objects: gnpactor.py and gnpparticle.Particle *)

\* One record shape for every actor class. id is the object's identity; none of
\* these classes defines __eq__, so list.remove compares identities. pos and vel
\* are a Particle's _position and _velocity; looping is PulseCircle._looping.
\* What only drawing reads (colour, size, radius, PulseCircle._lifetime_elapsed)
\* is left out. A GrowingCircle has one field more, its _total_lifetime.
ActorObj(id, kind, life, looping, pos, vel) ==
    [id |-> id, kind |-> kind, life |-> life, looping |-> looping,
     pos |-> pos, vel |-> vel]

\* LifetimeActor is the base class, which has no draw method; Circle stands
\* for its subclasses Dot, Circle, Line and Rect, which add draw and nothing
\* else.
LifetimeActor(id, lifetime) ==
    ActorObj(id, "LifetimeActor", lifetime, FALSE, ZeroVec, ZeroVec)
Circle(id, lifetime) == ActorObj(id, "Circle", lifetime, FALSE, ZeroVec, ZeroVec)

\* GrowingCircle, the LifetimeActor subclass that overrides step: it keeps the
\* lifetime it was constructed with as _total_lifetime.
GrowingCircle(id, lifetime) ==
    [id |-> id, kind |-> "GrowingCircle", life |-> lifetime, looping |-> FALSE,
     pos |-> ZeroVec, vel |-> ZeroVec, total_lifetime |-> lifetime]
AlphaRect(id) == ActorObj(id, "AlphaRect", 0, FALSE, ZeroVec, ZeroVec)
PulseCircle(id, lifetime) ==
    ActorObj(id, "PulseCircle", lifetime, lifetime = 0, ZeroVec, ZeroVec)
Particle(id, position, velocity, lifetime) ==
    ActorObj(id, "Particle", lifetime, FALSE, position, velocity)

\* An ActorList can hold Emitters, whose operations are defined with
\* gnpparticle.Emitter below.
RECURSIVE Emitter_can_reap(_, _)
RECURSIVE Emitter_step(_, _)
RECURSIVE Emitter_draw_err(_)

Particle_can_reap_Strict(a) == a.life < 0

Particle_can_reap(a) == a.life <= 0

Actor_can_reap(a) ==
    CASE a.kind \in {"LifetimeActor", "Circle", "GrowingCircle"} -> a.life <= 0
      [] a.kind = "AlphaRect" -> FALSE
      [] a.kind = "PulseCircle" -> IF a.looping THEN FALSE ELSE a.life <= 0
      [] a.kind = "Particle" -> Particle_can_reap(a)
      [] a.kind = "Emitter" -> Emitter_can_reap(a.particles, a.rate)

\* Particle.step past its assert.
Particle_step(a, dt) ==
    LET moved == [a EXCEPT !.pos = VecAdd(a.pos, VecScale(a.vel, dt)),
                           !.life = a.life - dt]
    IN  IF moved.life < 0 THEN [moved EXCEPT !.life = 0] ELSE moved

\* actor.step(dt): the actor afterwards, and the exception if it raised.
\* GrowingCircle.step runs LifetimeActor.step and then divides the lifetime
\* left by _total_lifetime, which raises when the circle was constructed with
\* lifetime 0; the radius the quotient gives is read by draw only.
Actor_step(a, dt) ==
    CASE a.kind \in {"LifetimeActor", "Circle"} ->
            [actor |-> [a EXCEPT !.life = a.life - dt], err |-> "none"]
      [] a.kind = "GrowingCircle" ->
            [actor |-> [a EXCEPT !.life = a.life - dt],
             err |-> IF a.total_lifetime = 0 THEN "ZeroDivisionError" ELSE "none"]
      [] a.kind = "AlphaRect" -> [actor |-> a, err |-> "none"]
      [] a.kind = "PulseCircle" ->
            [actor |-> [a EXCEPT !.life = a.life - dt], err |-> "none"]
      [] a.kind = "Particle" ->
            IF Particle_can_reap(a)
            THEN [actor |-> a, err |-> "AssertionError"]
            ELSE [actor |-> Particle_step(a, dt), err |-> "none"]
      [] a.kind = "Emitter" -> Emitter_step(a, dt)

\* actor.draw(surface) changes no actor; Particle.draw asserts it is alive,
\* and the base class LifetimeActor has no draw attribute.
Actor_draw_err(a) ==
    IF a.kind = "Emitter" THEN Emitter_draw_err(a)
    ELSE IF a.kind = "Particle" /\ Particle_can_reap(a) THEN "AssertionError"
    ELSE IF a.kind = "LifetimeActor" THEN "AttributeError"
    ELSE "none"

\* The classes that define reap(): Particle (and Emitter) define none.
HasReap(a) ==
    a.kind \in {"LifetimeActor", "Circle", "GrowingCircle", "AlphaRect", "PulseCircle"}

\* actor.reap() on a class that defines it.
Actor_reap(a) ==
    CASE a.kind \in {"LifetimeActor", "Circle", "GrowingCircle"} -> [a EXCEPT !.life = 0]
      [] a.kind = "AlphaRect" -> a
      [] a.kind = "PulseCircle" -> [a EXCEPT !.life = 0]

----------------------------------------------------------------------------
(* gnppygame.ActorList *)

IdsOf(s) == [i \in 1..Len(s) |-> s[i].id]
RangeOf(s) == {s[i] : i \in 1..Len(s)}

\* list.remove(x): drops the first element equal to x.
RECURSIVE ListRemove(_, _)
ListRemove(s, id) ==
    IF s = <<>> THEN <<>>
    ELSE IF Head(s).id = id THEN Tail(s)
    ELSE <<Head(s)>> \o ListRemove(Tail(s), id)

\* The second loop of ActorList.step: for actor_to_del in actors_to_delete.
RECURSIVE RemoveAll(_, _)
RemoveAll(s, dels) ==
    IF dels = <<>> THEN s ELSE RemoveAll(ListRemove(s, Head(dels)), Tail(dels))

\* The first loop of ActorList.step from index i on: s is the list, dels the
\* actors_to_delete so far, ids the actors stepped so far.
RECURSIVE StepLoop(_, _, _, _, _)
StepLoop(s, i, dt, dels, ids) ==
    IF i > Len(s)
    THEN [actors |-> s, dels |-> dels, called |-> ids, err |-> "none"]
    ELSE LET r == Actor_step(s[i], dt)
             s2 == [s EXCEPT ![i] = r.actor]
         IN  IF r.err # "none"
             THEN [actors |-> s2, dels |-> dels, called |-> Append(ids, s[i].id),
                   err |-> r.err]
             ELSE StepLoop(s2, i + 1, dt,
                           IF Actor_can_reap(r.actor) THEN Append(dels, s[i].id) ELSE dels,
                           Append(ids, s[i].id))

\* A step that removes while it iterates: after a removal the iterator's index
\* has moved past the element that slid into the freed slot.
RECURSIVE StepLoopInPlace(_, _, _, _)
StepLoopInPlace(s, i, dt, ids) ==
    IF i > Len(s)
    THEN [actors |-> s, dels |-> <<>>, called |-> ids, err |-> "none"]
    ELSE LET r == Actor_step(s[i], dt)
             s2 == [s EXCEPT ![i] = r.actor]
         IN  IF r.err # "none"
             THEN [actors |-> s2, dels |-> <<>>, called |-> Append(ids, s[i].id),
                   err |-> r.err]
             ELSE StepLoopInPlace(
                      IF Actor_can_reap(r.actor) THEN ListRemove(s2, s[i].id) ELSE s2,
                      i + 1, dt, Append(ids, s[i].id))

ActorList_step_InPlace(s, dt) ==
    LET r == StepLoopInPlace(s, 1, dt, <<>>)
    IN  [actors |-> r.actors, called |-> r.called, err |-> r.err]

\* A step that leaves the actors that died in it for the next step to remove.
ActorList_step_Deferred(s, dt) ==
    LET r == StepLoop(SelectSeq(s, LAMBDA a : ~Actor_can_reap(a)), 1, dt, <<>>, <<>>)
    IN  [actors |-> r.actors, called |-> r.called, err |-> r.err]

\* ActorList.step(time_delta): the list afterwards, the ids whose step() was
\* called, and the exception if an actor's step raised (no removal then).
ActorList_step(s, dt) ==
    LET r == StepLoop(s, 1, dt, <<>>, <<>>)
    IN  [actors |-> IF r.err = "none" THEN RemoveAll(r.actors, r.dels) ELSE r.actors,
         called |-> r.called, err |-> r.err]

\* ActorList.draw from index i on. An actor without a draw method ends the
\* loop before anything of it is called.
RECURSIVE DrawLoop(_, _, _)
DrawLoop(s, i, ids) ==
    IF i > Len(s) THEN [called |-> ids, err |-> "none"]
    ELSE IF Actor_draw_err(s[i]) = "AttributeError"
         THEN [called |-> ids, err |-> "AttributeError"]
    ELSE IF Actor_draw_err(s[i]) # "none"
         THEN [called |-> Append(ids, s[i].id), err |-> Actor_draw_err(s[i])]
         ELSE DrawLoop(s, i + 1, Append(ids, s[i].id))

ActorList_draw_Filtered(s) ==
    DrawLoop(SelectSeq(s, LAMBDA a : ~Actor_can_reap(a)), 1, <<>>)

\* ActorList.draw(surface): the ids whose draw() was called.
ActorList_draw(s) == DrawLoop(s, 1, <<>>)

\* The loop of ActorList.reap from index i on. An actor without a reap method
\* raises AttributeError at actor.reap().
RECURSIVE ReapLoop(_, _, _)
ReapLoop(s, i, ids) ==
    IF i > Len(s) THEN [actors |-> s, called |-> ids, err |-> "none"]
    ELSE IF ~HasReap(s[i])
         THEN [actors |-> s, called |-> ids, err |-> "AttributeError"]
         ELSE ReapLoop([s EXCEPT ![i] = Actor_reap(s[i])], i + 1,
                       Append(ids, s[i].id))

\* ActorList.reap(): del self[:] runs only when the loop has returned.
ActorList_reap(s) ==
    LET r == ReapLoop(s, 1, <<>>)
    IN  [actors |-> IF r.err = "none" THEN <<>> ELSE r.actors,
         called |-> r.called, err |-> r.err]

----------------------------------------------------------------------------
(* SpecList: an ActorList of simple actors and particles, driven by a client *)

IdleRate ==
    /\ rate = EmitterRate_Burst(1)
    /\ hist = NoHist

InitList ==
    /\ IdleList
    /\ IdleEmitter
    /\ IdleRate
    /\ lastOp = "init"
    /\ err = "none"
    /\ IdleUtil

\* The actors a client constructs, one for each way an actor of gnpactor
\* behaves in a list: a Circle that lives MaxLife; an object of the base
\* class LifetimeActor, of lifetime 0, which is reapable from the start and
\* which a draw() of the list cannot draw; a GrowingCircle of lifetime 0,
\* whose step() raises (with a lifetime > 0 it steps, draws and reaps as a
\* Circle does); an AlphaRect; a PulseCircle of lifetime 0, which loops, and
\* one that lives MaxLife. Appends between steps give the list actors of
\* every remaining lifetime. A Particle is constructed alive here; the
\* Emitter's particles, whose lifetime a policy draws, are in Spec.
NewActors(id) ==
    {Circle(id, MaxLife), LifetimeActor(id, 0), GrowingCircle(id, 0), AlphaRect(id),
     PulseCircle(id, 0), PulseCircle(id, MaxLife),
     Particle(id, ZeroVec, ZeroVec, MaxLife)}

\* list.append(actor) with a newly constructed actor.
ListAppend ==
    /\ nextId <= MaxActors
    /\ \E a \in NewActors(nextId) : actors' = Append(actors, a)
    /\ nextId' = nextId + 1
    /\ called' = <<>>
    /\ lastOp' = "append"
    /\ err' = "none"
    /\ lastDt' = 0
    /\ UNCHANGED <<rateVars, emVars, justDied, everDied, clock>>
    /\ UNCHANGED utilVars

\* The ids of s that are reapable in t but were not in s.
Died(s, t) ==
    {s[i].id : i \in {j \in 1..Len(s) :
        /\ ~Actor_can_reap(s[j])
        /\ \E k \in 1..Len(t) : t[k].id = s[j].id /\ Actor_can_reap(t[k])}}

\* actors.step(dt). justDied and everDied record the actors that turned
\* reapable in a step that returned; a step in which an actor's step() raises
\* ends there, with nothing removed.
ListStep(dt) ==
    /\ \A i \in 1..Len(actors) : actors[i].life - dt >= 0 - MaxLife
    /\ \E r \in {ActorList_step(actors, dt)} :
          \E died \in {IF r.err = "none"
                        THEN Died(actors, StepLoop(actors, 1, dt, <<>>, <<>>).actors)
                        ELSE {}} :
              /\ actors' = r.actors
              /\ called' = r.called
              /\ err' = r.err
              /\ justDied' = died
              /\ everDied' = everDied \cup died
    /\ lastDt' = dt
    /\ lastOp' = "step"
    /\ UNCHANGED <<rateVars, emVars, nextId, clock>>
    /\ UNCHANGED utilVars

\* actors.draw(surface)
ListDraw ==
    /\ LET r == ActorList_draw(actors)
       IN  /\ called' = r.called
           /\ err' = r.err
    /\ lastOp' = "draw"
    /\ lastDt' = 0
    /\ UNCHANGED <<rateVars, emVars, actors, nextId, justDied, everDied, clock>>
    /\ UNCHANGED utilVars

\* actors.reap()
ListReap ==
    /\ actors # <<>>
    /\ LET r == ActorList_reap(actors)
       IN  /\ actors' = r.actors
           /\ called' = r.called
           /\ err' = r.err
    /\ lastOp' = "reap"
    /\ lastDt' = 0
    /\ UNCHANGED <<rateVars, emVars, nextId, justDied, everDied, clock>>
    /\ UNCHANGED utilVars

\* A client cuts one actor's life short: actors[i].reap().
ActorReap(i) ==
    /\ HasReap(actors[i])
    /\ actors' = [actors EXCEPT ![i] = Actor_reap(actors[i])]
    /\ called' = <<>>
    /\ lastOp' = "actor_reap"
    /\ err' = "none"
    /\ lastDt' = 0
    /\ UNCHANGED <<rateVars, emVars, nextId, justDied, everDied, clock>>
    /\ UNCHANGED utilVars

NextList ==
    \/ ListAppend
    \/ \E dt \in 0..MaxLife : ListStep(dt)
    \/ ListDraw
    \/ ListReap
    \/ \E i \in 1..Len(actors) : ActorReap(i)

SpecList == InitList /\ [][NextList]_vars


----------------------------------------------------------------------------
(* Claims on ActorList *)

\* C3, as the specification states it: an actor whose can_reap() turns true
\* inside step(dt) is still in the list when that step returns and is drawn by
\* the draw() that follows.
C3_DrawnOnceMore ==
    /\ (lastOp = "step" => justDied \subseteq RangeOf(IdsOf(actors)))
    /\ (lastOp = "draw" => justDied \subseteq RangeOf(called))

\* C3, amended: an actor whose can_reap() turns true inside step(dt) is removed
\* by that same step. It is not in the list when the step returns, the draw()
\* that follows does not draw it, and no later step steps it.
C3_RemovedBySameStep ==
    /\ everDied \cap RangeOf(IdsOf(actors)) = {}
    /\ (lastOp = "draw" => justDied \cap RangeOf(called) = {})
    /\ (lastOp = "step" => (everDied \ justDied) \cap RangeOf(called) = {})

C3_Witness ==
    /\ lastOp = "draw"
    /\ err = "none"
    /\ justDied # {}
    /\ called # <<>>
    /\ everDied # justDied

\* C4: ActorList.step(dt) that returns has called step() once on every actor
\* of the list, in list order, and leaves exactly the actors whose can_reap()
\* is false after their own step, in their original order.
C4_StepOnceThenFilter ==
    [][(lastOp' = "step" /\ err' = "none") =>
          /\ called' = IdsOf(actors)
          /\ actors' = SelectSeq(
                 [i \in 1..Len(actors) |-> Actor_step(actors[i], lastDt').actor],
                 LAMBDA a : ~Actor_can_reap(a))]_vars

C4_Witness ==
    /\ lastOp = "step"
    /\ err = "none"
    /\ Len(called) = 3
    /\ Len(actors) = 1
    /\ actors[1].id = called[3]

\* C5: ActorList.draw(surface) that returns has called draw() once on every
\* actor of the list, in list order, reapable or not, and draw leaves the list
\* as it was.
C5_DrawAllInOrder ==
    [][lastOp' = "draw" =>
          /\ actors' = actors
          /\ err' = "none" => called' = IdsOf(actors)]_vars

C5_Witness ==
    /\ lastOp = "draw"
    /\ err = "none"
    /\ Len(called) >= 2
    /\ called = IdsOf(actors)
    /\ \E i \in 1..Len(actors) : Actor_can_reap(actors[i])
    /\ \E i \in 1..Len(actors) : ~Actor_can_reap(actors[i])

\* C6: ActorList.reap() returns with the list empty whatever actors it holds
\* (LifetimeActor subclasses, Particle, ...), reap() being optional on an actor.
C6_ReapEmptiesList ==
    lastOp = "reap" => (err = "none" /\ actors = <<>>)

----------------------------------------------------------------------------
(* gnpparticle.py: speed, direction, lifetime and field policies *)

\* A policy object is a record; get_speed / get_direction / get_lifetime return
\* one of the values below. A random draw (random.uniform, RandomDirection) is
\* any tick of the interval, any axis direction of the circle.
EmitterSpeed_Constant(speed) == [kind |-> "Constant", lo |-> speed, hi |-> speed]
EmitterSpeed_Range(lo, hi) == [kind |-> "Range", lo |-> lo, hi |-> hi]
Speed_get_speed(o) == o.lo .. o.hi

\* The unit vectors the model draws for a random direction.
AxisDirections == {<<0, 1>>, <<-1, 0>>}

\* EmitterDirection_Constant.__init__: asserts that the argument is a cVector2
\* (is_cVector2 tells whether it is) and keeps its Normalize(), which raises
\* for the zero vector and, under Python 3, for every vector. obj is the
\* object constructed, with _dir = dir / over.
EmitterDirection_Constant(dir_vect, is_cVector2, py) ==
    IF ~is_cVector2 THEN [obj |-> <<>>, err |-> "AssertionError"]
    ELSE LET n == cVector2_Normalize(dir_vect, py)
         IN  IF n.err # "none" THEN [obj |-> <<>>, err |-> n.err]
             ELSE [obj |-> [kind |-> "Constant", dir |-> n.ret, over |-> n.over],
                   err |-> "none"]
EmitterDirection_360 == [kind |-> "360", dir |-> ZeroVec, over |-> 1]

\* What a client passes to EmitterDirection_Constant: the components of a
\* cVector2, or of a plain tuple, along the x axis with length 0, 1 and 2.
DirVects == {<<0, 0>>, <<1, 0>>, <<2, 0>>}

\* The constant directions that can be constructed: the constructor returns
\* under Python 2 only, for a cVector2 that is not zero, with _dir = (1, 0).
ConstantDirections ==
    {c.obj : c \in {d \in {EmitterDirection_Constant(v, t, py) :
                                v \in DirVects, t \in BOOLEAN, py \in PythonVersions} :
                        d.err = "none"}}

\* get_direction: the unit vector of the particle's velocity; a constant
\* direction returns _dir, which is whole (over = 1) for ConstantDirections.
Direction_get_direction(o) ==
    IF o.kind = "Constant" THEN {o.dir} ELSE AxisDirections

EmitterLifetime_Constant(lifetime) ==
    [kind |-> "Constant", lo |-> lifetime, hi |-> lifetime]
EmitterLifetime_Range(lo, hi) == [kind |-> "Range", lo |-> lo, hi |-> hi]
Lifetime_get_lifetime(o) == o.lo .. o.hi

NoField == [kind |-> "None", accel |-> ZeroVec]
EmitterField_Constant(accel) == [kind |-> "Constant", accel |-> accel]
\* EmitterField_Drag(percent_per_second)
EmitterField_Drag(percent_per_second) ==
    [kind |-> "Drag", accel |-> ZeroVec, percent_per_second |-> percent_per_second]

\* get_accel_vector(position, cur_vel) dispatched on the class of the field;
\* Drag returns -(cur_vel * percent_per_second).
Field_get_accel_vector(f, position, cur_vel) ==
    IF f.kind = "Drag"
    THEN VecScale(VecScale(cur_vel, f.percent_per_second), -1)
    ELSE f.accel

----------------------------------------------------------------------------
(* gnpparticle.Emitter *)

\* Emitter.__init__: colour and size, which only drawing reads, are left out.
EmitterObj(position, speed_obj, direction_obj, lifetime_obj, field_obj) ==
    [position |-> position, speed_obj |-> speed_obj,
     direction_obj |-> direction_obj, lifetime_obj |-> lifetime_obj,
     field_obj |-> field_obj, can_emit |-> TRUE]

Emitter_can_reap_RateOnly(ps, r) == Rate_is_complete(r)

\* Emitter.can_reap
Emitter_can_reap(ps, r) ==
    LET pending_particles == Len(ps) # 0
    IN  ~pending_particles /\ Rate_is_complete(r)

Emitter_emit_Unguarded(e, r, dt, delay) ==
    LET res == Rate_how_many(r, dt, delay)
    IN  [rate |-> res.rate, count |-> res.count, asked |-> TRUE]

\* Emitter._emit up to its loop: whether how_many was called, what it returned
\* and the rate object afterwards.
Emitter_emit(e, r, dt, delay) ==
    IF ~Rate_is_complete(r)
    THEN LET res == Rate_how_many(r, dt, delay)
         IN  [rate |-> res.rate, count |-> res.count, asked |-> TRUE]
    ELSE [rate |-> r, count |-> 0, asked |-> FALSE]

\* A stopped emitter whose rate policy goes on accumulating the frame time.
Emitter_step_emit_CatchesUp(e, r, dt, delay) ==
    IF e.can_emit THEN Emitter_emit(e, r, dt, delay)
    ELSE [rate |-> [r EXCEPT !.delta_carryover = @ + dt], count |-> 0, asked |-> FALSE]

\* The emission part of Emitter.step: _emit runs only while _can_emit is set.
Emitter_step_emit(e, r, dt, delay) ==
    IF e.can_emit THEN Emitter_emit(e, r, dt, delay)
    ELSE [rate |-> r, count |-> 0, asked |-> FALSE]

\* What the loop body of _emit can draw for one particle.
Draws(e) ==
    [speed : Speed_get_speed(e.speed_obj),
     dir : Direction_get_direction(e.direction_obj),
     lifetime : Lifetime_get_lifetime(e.lifetime_obj)]

\* The particles the loop of _emit appends for the draws d[1..count].
Emitted(e, d, count, id0) ==
    [i \in 1..count |->
        Particle(id0 + i - 1, e.position, VecScale(d[i].dir, d[i].speed), d[i].lifetime)]

\* "update particle from field" in Emitter.step
ApplyField(e, ps, dt) ==
    IF e.field_obj.kind = "None" THEN ps
    ELSE [i \in 1..Len(ps) |->
            [ps[i] EXCEPT !.vel = VecAdd(ps[i].vel,
                VecScale(Field_get_accel_vector(e.field_obj, ps[i].pos, ps[i].vel), dt))]]

\* Explicit Euler: positions are integrated with the old velocity, the field
\* is applied afterwards.
Emitter_step_particles_Explicit(e, ps, dt) ==
    LET st == ActorList_step(ps, dt)
    IN  [st EXCEPT !.actors = ApplyField(e, st.actors, dt)]

\* The tail of Emitter.step: the field loop, then self._particles.step.
Emitter_step_particles(e, ps, dt) == ActorList_step(ApplyField(e, ps, dt), dt)

\* An Emitter as an actor of an ActorList: the emitter, its _rate_obj and
\* its _particles in one record. delay is the value random.uniform returns
\* to the rate policy in the next step, nextPid the identity of the next
\* particle.
EmitterActor(id, e, r) ==
    [id |-> id, kind |-> "Emitter", em |-> e, rate |-> r, particles |-> <<>>,
     delay |-> 0, nextPid |-> 1]

\* Emitter.step(time_delta) of an emitter whose speed, direction and lifetime
\* policies are constant: the emitter afterwards and the assertion that
\* failed, its own or a particle's.
Emitter_step(a, dt) ==
    IF Emitter_can_reap(a.particles, a.rate)
    THEN [actor |-> a, err |-> "AssertionError"]
    ELSE LET res == Emitter_step_emit(a.em, a.rate, dt, a.delay)
             d == [i \in 1..res.count |-> CHOOSE x \in Draws(a.em) : TRUE]
             born == a.particles \o Emitted(a.em, d, res.count, a.nextPid)
             st == Emitter_step_particles(a.em, born, dt)
         IN  [actor |-> [a EXCEPT !.rate = res.rate, !.particles = st.actors,
                                  !.delay = 0,
                                  !.nextPid = @ + (IF res.count > 0 THEN res.count ELSE 0)],
              err |-> st.err]

\* Emitter.draw(surface): the assertion that fails, the emitter's own or one
\* of a particle it draws.
Emitter_draw_err(a) ==
    IF Emitter_can_reap(a.particles, a.rate) THEN "AssertionError"
    ELSE ActorList_draw(a.particles).err

----------------------------------------------------------------------------
(* Spec: one Emitter driven by a client that steps, starts, stops and moves it *)

Rates ==
    {EmitterRate_Burst(n) : n \in 1..MaxBurst}
    \cup {EmitterRate_DelayConstant(d) : d \in 1..2}
    \cup {EmitterRate_DelayRange(1, 2)}
    \cup {EmitterRate_DelayRangeWithLifetime(1, 2, l) : l \in 1..2}

Lifetimes ==
    {EmitterLifetime_Constant(l) : l \in 0..MaxLife} \cup {EmitterLifetime_Range(1, 2)}

Positions == {<<0, 0>>, <<2, 1>>}

\* The acceleration of the constant field of the run.
Gravity == <<0, -1>>

Emitters ==
    {EmitterObj(<<0, 0>>, EmitterSpeed_Constant(1), d, l, NoField) :
        d \in ConstantDirections, l \in Lifetimes}
    \cup {EmitterObj(<<0, 0>>, EmitterSpeed_Range(1, 2), EmitterDirection_360,
                     EmitterLifetime_Constant(1), NoField)}
    \cup {EmitterObj(<<0, 0>>, EmitterSpeed_Constant(1), d,
                     EmitterLifetime_Constant(MaxLife + 1),
                     EmitterField_Constant(Gravity)) : d \in ConstantDirections}

Init ==
    /\ em \in Emitters
    /\ rate \in Rates
    /\ particles = <<>>
    /\ hist = NoHist
    /\ emh = [NoEmHist EXCEPT !.life0 = rate.emitter_lifetime_remaining]
    /\ IdleList
    /\ lastOp = "init"
    /\ err = "none"
    /\ IdleUtil

\* emitter.step(dt)
Step(dt) ==
    /\ emh.steps < MaxSteps
    /\ clock + dt <= MaxClock
    /\ lastOp' = "step"
    /\ IF Emitter_can_reap(particles, rate)
       THEN /\ err' = "AssertionError"
            /\ lastDt' = dt
            /\ UNCHANGED <<rate, hist, em, particles, emh, actors, nextId, called,
                           justDied, everDied, clock>>
       ELSE \E delay \in DelayChoices(rate) :
              LET res == Emitter_step_emit(em, rate, dt, delay)
              IN  /\ Len(particles) + res.count <= MaxParticles
                  /\ \E d \in [1..res.count -> Draws(em)] :
                        LET born == particles \o Emitted(em, d, res.count, nextId)
                            st == Emitter_step_particles(em, born, dt)
                        IN  /\ particles' = st.actors
                            /\ err' = st.err
                  /\ rate' = res.rate
                  /\ hist' = IF res.asked THEN Recorded(hist, rate, dt, res.count, delay)
                             ELSE hist
                  /\ nextId' = nextId + (IF res.count > 0 THEN res.count ELSE 0)
                  /\ emh' = [emh EXCEPT
                               !.steps = @ + 1,
                               !.stoppedSteps = @ + IF em.can_emit THEN 0 ELSE 1,
                               !.emitDt = @ + IF em.can_emit THEN dt ELSE 0]
                  /\ lastDt' = dt
                  /\ clock' = clock + dt
                  /\ UNCHANGED <<em, actors, called, justDied, everDied>>
    /\ UNCHANGED utilVars

\* emitter.start()
Start ==
    /\ em' = [em EXCEPT !.can_emit = TRUE]
    /\ lastOp' = "start"
    /\ err' = "none"
    /\ lastDt' = 0
    /\ UNCHANGED <<rateVars, particles, emh, actors, nextId, called, justDied,
                   everDied, clock>>
    /\ UNCHANGED utilVars

\* A stop() that also drops the particles in flight.
Stop_Clears ==
    /\ em' = [em EXCEPT !.can_emit = FALSE]
    /\ particles' = <<>>
    /\ lastOp' = "stop"
    /\ err' = "none"
    /\ lastDt' = 0
    /\ UNCHANGED <<rateVars, emh, actors, nextId, called, justDied, everDied, clock>>
    /\ UNCHANGED utilVars

\* emitter.stop()
Stop ==
    /\ em' = [em EXCEPT !.can_emit = FALSE]
    /\ lastOp' = "stop"
    /\ err' = "none"
    /\ lastDt' = 0
    /\ UNCHANGED <<rateVars, particles, emh, actors, nextId, called, justDied,
                   everDied, clock>>
    /\ UNCHANGED utilVars

\* A set_position that drags the particles in flight along with the emitter.
SetPosition_MovesParticles(pos) ==
    /\ em' = [em EXCEPT !.position = pos]
    /\ particles' = [i \in 1..Len(particles) |->
            [particles[i] EXCEPT !.pos = VecAdd(particles[i].pos,
                                     VecAdd(pos, VecScale(em.position, -1)))]]
    /\ lastOp' = "set_position"
    /\ err' = "none"
    /\ lastDt' = 0
    /\ UNCHANGED <<rateVars, emh, actors, nextId, called, justDied, everDied, clock>>
    /\ UNCHANGED utilVars

\* emitter.set_position(pos)
SetPosition(pos) ==
    /\ em' = [em EXCEPT !.position = pos]
    /\ lastOp' = "set_position"
    /\ err' = "none"
    /\ lastDt' = 0
    /\ UNCHANGED <<rateVars, particles, emh, actors, nextId, called, justDied,
                   everDied, clock>>
    /\ UNCHANGED utilVars

Next ==
    \/ \E dt \in 0..MaxLife : Step(dt)
    \/ Start
    \/ Stop
    \/ \E pos \in Positions : SetPosition(pos)

Spec == Init /\ [][Next]_vars

----------------------------------------------------------------------------
(* Claims on the Emitter *)

\* C7: in every reachable state of an Emitter, can_reap() is true exactly when
\* its rate policy is complete and it holds no particle.
C7_EmitterReapCondition ==
    Emitter_can_reap(particles, rate) <=> (Rate_is_complete(rate) /\ particles = <<>>)

C7_Witness ==
    /\ Emitter_can_reap(particles, rate)
    /\ rate.kind = "DelayRangeWithLifetime"
    /\ emh.steps >= 2
    /\ nextId > 1

\* C8: whatever the interleaving of step, start and stop, an operation that
\* begins with the rate policy complete calls how_many on it no more (hist is
\* left as it was) and creates no particle.
C8_NoEmissionOnceComplete ==
    [][Rate_is_complete(rate) => (hist' = hist /\ nextId' = nextId)]_vars

C8_Witness ==
    /\ Rate_is_complete(rate)
    /\ lastOp = "step"
    /\ err = "none"
    /\ em.can_emit
    /\ emh.stoppedSteps = 0
    /\ emh.steps > hist.calls
    /\ particles # <<>>

\* C10: an Emitter with Burst(n), a constant particle lifetime L > 0 and no
\* field, stepped from construction on with can_emit true: after a first
\* step(dt1), dt1 < L, it holds exactly n particles, it holds them as long as
\* the stepped time stays below L, and once the stepped time has reached L it
\* holds none and can_reap() is true.
C10_BurstEndToEnd ==
    (/\ rate.kind = "Burst"
     /\ em.lifetime_obj.kind = "Constant"
     /\ em.lifetime_obj.lo > 0
     /\ em.field_obj.kind = "None"
     /\ emh.steps >= 1
     /\ emh.stoppedSteps = 0) =>
        /\ ((emh.steps = 1 /\ lastOp = "step" /\ err = "none"
                /\ lastDt < em.lifetime_obj.lo) =>
                Len(particles) = rate.num_particles)
        /\ (clock < em.lifetime_obj.lo => Len(particles) = rate.num_particles)
        /\ (clock >= em.lifetime_obj.lo =>
                particles = <<>> /\ Emitter_can_reap(particles, rate))

C10_Witness ==
    /\ rate.kind = "Burst"
    /\ rate.num_particles = 2
    /\ em.lifetime_obj.kind = "Constant"
    /\ em.lifetime_obj.lo = 2
    /\ em.field_obj.kind = "None"
    /\ emh.steps = 2
    /\ emh.stoppedSteps = 0
    /\ lastDt = 1
    /\ clock = 2
    /\ nextId = 3
    /\ particles = <<>>
    /\ Emitter_can_reap(particles, rate)

\* C11: in one Emitter.step(dt) of an emitter whose field returns the constant
\* acceleration a, every particle that is alive when the step ends has
\* velocity v0 + a*dt and position p0 + (v0 + a*dt)*dt, v0 and p0 being its
\* velocity and position before the step or, for a particle emitted in this
\* step, the velocity it was emitted with and the emitter's position.
C11_FieldBeforePosition ==
    [][(/\ lastOp' = "step"
        /\ emh'.steps = emh.steps + 1
        /\ em.field_obj.kind = "Constant") =>
          \A j \in 1..Len(particles') :
              LET q == particles'[j]
                  a == em.field_obj.accel
                  EndsAs(v0, p0) ==
                      /\ q.vel = VecAdd(v0, VecScale(a, lastDt'))
                      /\ q.pos = VecAdd(p0, VecScale(VecAdd(v0, VecScale(a, lastDt')),
                                                     lastDt'))
              IN  q.life > 0 =>
                    IF \E i \in 1..Len(particles) : particles[i].id = q.id
                    THEN \E i \in 1..Len(particles) :
                            /\ particles[i].id = q.id
                            /\ EndsAs(particles[i].vel, particles[i].pos)
                    ELSE \E d \in Draws(em) :
                            EndsAs(VecScale(d.dir, d.speed), em.position)]_vars

C11_Witness ==
    /\ lastOp = "step"
    /\ err = "none"
    /\ em.field_obj.kind = "Constant"
    /\ emh.steps >= 2
    /\ lastDt = 1
    /\ \E j \in 1..Len(particles) : particles[j].vel = <<1, -2>> /\ particles[j].life > 0
    /\ \E j \in 1..Len(particles) : particles[j].vel = <<1, -1>> /\ particles[j].life > 0

----------------------------------------------------------------------------
(* SpecParticle: one Particle, constructed as the Emitter constructs it and *)
(* stepped the way ActorList.step steps it: particle.step(dt)               *)

Velocities == {<<1, 0>>, <<-1, 2>>, <<0, -1>>}

\* actors holds the particle; the lifetime is any value a lifetime policy of
\* Lifetimes can return, 0 included.
InitParticle ==
    /\ \E p \in Positions, v \in Velocities, l \in 0..MaxLife :
          actors = <<Particle(1, p, v, l)>>
    /\ nextId = 2
    /\ called = <<>>
    /\ justDied = {}
    /\ everDied = {}
    /\ lastDt = 0
    /\ clock = 0
    /\ IdleEmitter
    /\ IdleRate
    /\ lastOp = "init"
    /\ err = "none"
    /\ IdleUtil

\* particle.step(dt)
ParticleStep(dt) ==
    /\ clock + dt <= MaxClock
    /\ LET r == Actor_step(actors[1], dt)
       IN  /\ actors' = <<r.actor>>
           /\ err' = r.err
    /\ lastDt' = dt
    /\ clock' = clock + dt
    /\ lastOp' = "step"
    /\ UNCHANGED <<rateVars, emVars, nextId, called, justDied, everDied>>
    /\ UNCHANGED utilVars

NextParticle == \E dt \in 0..MaxLife : ParticleStep(dt)

SpecParticle == InitParticle /\ [][NextParticle]_vars

\* C12: a Particle created with lifetime >= 0 and stepped with dt >= 0 never
\* has a negative lifetime_remaining, can_reap() is true exactly when
\* lifetime_remaining is 0, and each step(dt) sets lifetime_remaining to
\* max(0, lifetime_remaining - dt) and position to position + velocity*dt.
C12_ParticleStepEffect ==
    /\ [](/\ actors[1].life >= 0
          /\ (Particle_can_reap(actors[1]) <=> actors[1].life = 0))
    /\ [][lastOp' = "step" =>
            /\ actors'[1].life = (IF actors[1].life - lastDt' > 0
                                  THEN actors[1].life - lastDt' ELSE 0)
            /\ actors'[1].pos = VecAdd(actors[1].pos,
                                       VecScale(actors[1].vel, lastDt'))]_vars

\* C13: Emitter.start() and Emitter.stop() change can_emit and nothing else:
\* the particles and the rate policy are as before the call. A step taken
\* while stopped adds no particle and does not touch the rate policy, and it
\* steps every particle that was alive before it once (field, then
\* Particle.step), keeping the ones still alive and removing the ones that
\* died in it.
C13_StartStopFrame ==
    [][/\ (lastOp' \in {"start", "stop"} =>
              /\ particles' = particles
              /\ rate' = rate
              /\ hist' = hist
              /\ em' = [em EXCEPT !.can_emit = (lastOp' = "start")])
       /\ ((lastOp' = "step" /\ emh'.steps = emh.steps + 1 /\ ~em.can_emit) =>
              /\ nextId' = nextId
              /\ rate' = rate
              /\ hist' = hist
              /\ IdsOf(particles') = IdsOf(SelectSeq(particles,
                     LAMBDA p : \E k \in 1..Len(particles') : particles'[k].id = p.id))
              /\ \A i \in 1..Len(particles) :
                    LET p == particles[i]
                        q == Particle_step(ApplyField(em, <<p>>, lastDt')[1], lastDt')
                    IN  p.life > 0 =>
                          IF Particle_can_reap(q)
                          THEN \A k \in 1..Len(particles') : particles'[k].id # p.id
                          ELSE \E k \in 1..Len(particles') : particles'[k] = q)]_vars

C13_Witness ==
    /\ lastOp = "step"
    /\ err = "none"
    /\ ~em.can_emit
    /\ emh.stoppedSteps >= 1
    /\ lastDt = 1
    /\ nextId = 3
    /\ Len(particles) = 1
    /\ particles[1].id = 2
    /\ particles[1].life > 0

\* C14: Emitter.set_position(p) changes the emitter's position and nothing
\* else: every particle keeps its position, velocity and lifetime. In a later
\* step a particle emitted before moves as it would with the emitter anywhere
\* else (field, then Particle.step, from its own position), and a particle
\* emitted in that step starts from the emitter's position of that moment.
C14_SetPositionFrame ==
    [][/\ (lastOp' = "set_position" =>
              /\ particles' = particles
              /\ rate' = rate
              /\ hist' = hist
              /\ em' = [em EXCEPT !.position = em'.position])
       /\ ((lastOp' = "step" /\ emh'.steps = emh.steps + 1) =>
              \A k \in 1..Len(particles') :
                  LET q == particles'[k]
                      elsewhere == [em EXCEPT !.position = ZeroVec]
                      Moved(p) == Particle_step(ApplyField(elsewhere, <<p>>, lastDt')[1],
                                                lastDt')
                  IN  q.life > 0 =>
                        IF \E i \in 1..Len(particles) : particles[i].id = q.id
                        THEN \E i \in 1..Len(particles) : q = Moved(particles[i])
                        ELSE \E d \in Draws(em) :
                                q = Moved(Particle(q.id, em.position,
                                                   VecScale(d.dir, d.speed), d.lifetime)))]_vars

C14_Witness ==
    /\ lastOp = "step"
    /\ err = "none"
    /\ em.position = <<2, 1>>
    /\ Len(particles) = 2
    /\ particles[1].pos = <<2, -3>>
    /\ particles[2].pos = <<3, 0>>

\* C15: an Emitter whose rate policy is DelayConstant or DelayRange reports
\* can_reap() false in every reachable state, stopped with all its particles
\* dead included, so ActorList.step, which removes an actor only when its
\* can_reap() is true, never removes it.
C15_DelayEmitterNeverReapable ==
    rate.kind \in {"DelayConstant", "DelayRange"} => ~Emitter_can_reap(particles, rate)

C15_Witness ==
    /\ rate.kind = "DelayRange"
    /\ lastOp = "step"
    /\ ~em.can_emit
    /\ emh.stoppedSteps >= 1
    /\ nextId > 1
    /\ particles = <<>>
    /\ em.lifetime_obj.lo > 0

\* C16: an EmitterRate_DelayRange draws a new delay only when an emission has
\* consumed the previous one: the how_many call that follows a call that
\* returned 0 works with the delay that call worked with.
C16_DelayKeptUntilEmission ==
    [][(/\ rate.kind = "DelayRange"
        /\ hist.calls >= 1
        /\ hist.lastCount = 0
        /\ hist'.calls = hist.calls + 1) =>
            hist'.lastDelay = hist.lastDelay]_vars

----------------------------------------------------------------------------
(* gnppygame.TimerManager *)

\* The callbacks of the run. cb_a returns without touching the manager;
\* timer_fired is DemoTimerManager.timer_fired, which registers itself again:
\* self.timer_mgr.add(1.0, self.timer_fired).
Callbacks == {"cb_a", "timer_fired"}
ReAddDelay == 1

\* The timer_delay and time_delta values of the run.
TimerDelays == {0, 1, 2}
TimeDeltas == {0, 1, 2}

\* A timer is the tuple (trigger_time, callback). id tells the registrations
\* apart in the history; the code has no such field and never compares it.
Timer(trigger_time, callback, id) ==
    [trigger |-> trigger_time, cb |-> callback, id |-> id]

\* TimerManager.add
TimerManager_add(ts, elapsed, timer_delay, callback, id) ==
    Append(ts, Timer(elapsed + timer_delay, callback, id))

Timer_expired_Inclusive(t, elapsed) == t.trigger <= elapsed

\* The test of TimerManager.step: timer[0] < self._elapsed_seconds
Timer_expired(t, elapsed) == t.trigger < elapsed

\* What the history keeps of a registration made when elapsed seconds had
\* passed.
Registration(elapsed, timer_delay, callback) ==
    [at |-> elapsed, delay |-> timer_delay, cb |-> callback]

\* self._timers.remove(t): drops the first tuple equal to t.
RECURSIVE TimerRemove(_, _)
TimerRemove(ts, t) ==
    IF ts = <<>> THEN <<>>
    ELSE IF Head(ts).trigger = t.trigger /\ Head(ts).cb = t.cb THEN Tail(ts)
    ELSE <<Head(ts)>> \o TimerRemove(Tail(ts), t)

\* The second loop of TimerManager.step: for t in timers_to_del.
RECURSIVE RemoveTimers(_, _)
RemoveTimers(ts, dels) ==
    IF dels = <<>> THEN ts ELSE RemoveTimers(TimerRemove(ts, Head(dels)), Tail(dels))

\* A step that works on a copy of the timer list: what a callback adds is
\* registered and then lost.
Callback_call_LosesAdd(ts, i, elapsed, reg) ==
    IF ts[i].cb = "timer_fired"
    THEN [timers |-> ts, reg |-> Append(reg, Registration(elapsed, ReAddDelay, ts[i].cb))]
    ELSE [timers |-> ts, reg |-> reg]

\* timer[1](): the timer list and the registrations after the callback of
\* ts[i] has run.
Callback_call(ts, i, elapsed, reg) ==
    IF ts[i].cb = "timer_fired"
    THEN [timers |-> TimerManager_add(ts, elapsed, ReAddDelay, ts[i].cb, Len(reg) + 1),
          reg |-> Append(reg, Registration(elapsed, ReAddDelay, ts[i].cb))]
    ELSE [timers |-> ts, reg |-> reg]

\* The first loop of TimerManager.step from index i on. The loop iterates the
\* list itself, so it also visits what a callback appended. log gets one
\* entry per callback invoked: the timer's id and the ids in self._timers at
\* the moment of the call.
RECURSIVE FireLoop(_, _, _, _, _, _)
FireLoop(ts, i, elapsed, dels, log, reg) ==
    IF i > Len(ts) THEN [timers |-> ts, dels |-> dels, log |-> log, reg |-> reg]
    ELSE IF Timer_expired(ts[i], elapsed)
         THEN LET c == Callback_call(ts, i, elapsed, reg)
              IN  FireLoop(c.timers, i + 1, elapsed, Append(dels, ts[i]),
                           Append(log, [id |-> ts[i].id, seen |-> IdsOf(ts)]), c.reg)
         ELSE FireLoop(ts, i + 1, elapsed, dels, log, reg)

\* A step that removes a timer as soon as its callback has returned: the
\* timer that slides into the freed slot is passed over.
RECURSIVE FireLoopInPlace(_, _, _, _, _)
FireLoopInPlace(ts, i, elapsed, log, reg) ==
    IF i > Len(ts) THEN [timers |-> ts, dels |-> <<>>, log |-> log, reg |-> reg]
    ELSE IF Timer_expired(ts[i], elapsed)
         THEN LET c == Callback_call(ts, i, elapsed, reg)
              IN  FireLoopInPlace(TimerRemove(c.timers, ts[i]), i + 1, elapsed,
                                  Append(log, [id |-> ts[i].id, seen |-> IdsOf(ts)]),
                                  c.reg)
         ELSE FireLoopInPlace(ts, i + 1, elapsed, log, reg)

TimerManager_step_InPlace(ts, elapsed, time_delta, reg) ==
    LET r == FireLoopInPlace(ts, 1, elapsed + time_delta, <<>>, reg)
    IN  [elapsed |-> elapsed + time_delta, timers |-> r.timers,
         log |-> r.log, reg |-> r.reg]

\* TimerManager.step(time_delta)
TimerManager_step(ts, elapsed, time_delta, reg) ==
    LET r == FireLoop(ts, 1, elapsed + time_delta, <<>>, <<>>, reg)
    IN  [elapsed |-> elapsed + time_delta, timers |-> RemoveTimers(r.timers, r.dels),
         log |-> r.log, reg |-> r.reg]

----------------------------------------------------------------------------
(* SpecTimers: a TimerManager, a client that registers timers and steps it *)

InitTimers ==
    /\ IdleTimers
    /\ IdleRange
    /\ IdleCall
    /\ IdleAxis
    /\ IdleGame
    /\ IdleLoop
    /\ IdleHold
    /\ IdleList
    /\ IdleEmitter
    /\ IdleRate
    /\ lastOp = "init"
    /\ err = "none"

\* How often the registration k fired in the calls of log.
FiredIn(log, k) == Cardinality({j \in 1..Len(log) : log[j].id = k})

\* timer_mgr.add(timer_delay, callback)
TimerAdd(timer_delay, callback) ==
    /\ Len(tmh.reg) < MaxTimers
    /\ timers' = TimerManager_add(timers, elapsed_seconds, timer_delay, callback,
                                  Len(tmh.reg) + 1)
    /\ tmh' = [reg |-> Append(tmh.reg,
                              Registration(elapsed_seconds, timer_delay, callback)),
               fires |-> Append(tmh.fires, 0),
               log |-> <<>>]
    /\ lastOp' = "add"
    /\ err' = "none"
    /\ UNCHANGED <<coreVars, elapsed_seconds, rangeVars, callVars, axisVars, gameVars,
                 loopVars, holdVars>>

\* timer_mgr.step(time_delta)
TimerStep(time_delta) ==
    /\ elapsed_seconds + time_delta <= MaxElapsed
    /\ LET r == TimerManager_step(timers, elapsed_seconds, time_delta, tmh.reg)
       IN  /\ Len(r.reg) <= MaxTimers
           /\ elapsed_seconds' = r.elapsed
           /\ timers' = r.timers
           /\ tmh' = [reg |-> r.reg,
                      fires |-> [k \in 1..Len(r.reg) |->
                                    (IF k <= Len(tmh.fires) THEN tmh.fires[k] ELSE 0)
                                    + FiredIn(r.log, k)],
                      log |-> r.log]
    /\ lastOp' = "step"
    /\ err' = "none"
    /\ UNCHANGED <<coreVars, rangeVars, callVars, axisVars, gameVars,
                 loopVars, holdVars>>

NextTimers ==
    \/ \E d \in TimerDelays, cb \in Callbacks : TimerAdd(d, cb)
    \/ \E dt \in TimeDeltas : TimerStep(dt)

SpecTimers == InitTimers /\ [][NextTimers]_vars

----------------------------------------------------------------------------
(* Claims on the TimerManager *)

\* C17: every registration add(delay, cb), delay >= 0, has fired exactly once
\* as soon as a step has left the time elapsed since the registration strictly
\* above delay, and has not fired before: in every state its number of
\* invocations is 1 if elapsed - at > delay and 0 otherwise.
C17_FiresExactlyOnce ==
    \A k \in 1..Len(tmh.reg) :
        tmh.fires[k] = IF elapsed_seconds - tmh.reg[k].at > tmh.reg[k].delay
                       THEN 1 ELSE 0

C17_Witness ==
    /\ lastOp = "step"
    /\ \E k \in 1..Len(tmh.reg) :
          /\ tmh.reg[k].delay = 2
          /\ elapsed_seconds - tmh.reg[k].at = 4
          /\ tmh.fires[k] = 1
          /\ FiredIn(tmh.log, k) = 0
    /\ \E k \in 1..Len(tmh.reg) :
          /\ tmh.reg[k].delay = 1
          /\ tmh.reg[k].at > 0
          /\ elapsed_seconds - tmh.reg[k].at = 1
          /\ tmh.fires[k] = 0
    /\ \E k \in 1..Len(tmh.reg) : FiredIn(tmh.log, k) = 1

\* C18: one TimerManager.step invokes the callbacks of all the timers that
\* have expired, in the order the timers were added, whatever their trigger
\* times; every expired timer is still in the timer list while each of these
\* callbacks runs, and when the step returns the list holds the unexpired
\* timers in their order, followed by what the callbacks added.
C18_FireInAddOrderThenRemove ==
    [][lastOp' = "step" =>
        LET Expired(t) == t.trigger < elapsed_seconds'
            due == IdsOf(SelectSeq(timers, Expired))
            kept == IdsOf(SelectSeq(timers, LAMBDA t : ~Expired(t)))
        IN  /\ [j \in 1..Len(tmh'.log) |-> tmh'.log[j].id] = due
            /\ \A j \in 1..Len(tmh'.log) :
                  RangeOf(due) \subseteq RangeOf(tmh'.log[j].seen)
            /\ SubSeq(IdsOf(timers'), 1, Len(kept)) = kept
            /\ \A j \in Len(kept) + 1 .. Len(timers') :
                  timers'[j].id > Len(tmh.reg)]_vars

C18_Witness ==
    /\ lastOp = "step"
    /\ Len(tmh.log) = 2
    /\ tmh.reg[tmh.log[1].id].at + tmh.reg[tmh.log[1].id].delay
         > tmh.reg[tmh.log[2].id].at + tmh.reg[tmh.log[2].id].delay
    /\ Len(tmh.log[2].seen) = 3
    /\ Len(timers) = 1
    /\ timers[1].id < tmh.log[2].id

----------------------------------------------------------------------------
(* gnipMath.cRange *)

\* The numbers a cRange is given: even numbers of ticks, so that the midpoint
\* of two of them is a whole number of ticks.
Values == {2 * k : k \in (0 - MaxValue)..MaxValue}

\* A cRange that was never given a value has no _lo and no _hi attribute.
EmptyRange == [isInitialized |-> FALSE]

cRange_Include_AgainstLo(r, val) ==
    IF ~r.isInitialized
    THEN [isInitialized |-> TRUE, lo |-> val, hi |-> val]
    ELSE LET r1 == IF val < r.lo THEN [r EXCEPT !.lo = val] ELSE r
         IN  IF val > r1.lo THEN [r1 EXCEPT !.hi = val] ELSE r1

\* cRange.Include
cRange_Include(r, val) ==
    IF ~r.isInitialized
    THEN [isInitialized |-> TRUE, lo |-> val, hi |-> val]
    ELSE LET r1 == IF val < r.lo THEN [r EXCEPT !.lo = val] ELSE r
         IN  IF val > r1.hi THEN [r1 EXCEPT !.hi = val] ELSE r1

\* A constructor that stores its two arguments as given.
cRange_init_Direct(lo, hi) == [isInitialized |-> TRUE, lo |-> lo, hi |-> hi]

\* cRange.__init__(lo, hi) with two numbers.
cRange_init(lo, hi) == cRange_Include(cRange_Include(EmptyRange, lo), hi)

\* An IncludeRange that takes an uninitialized range as an empty one.
cRange_IncludeRange_Lenient(r, other) ==
    IF ~other.isInitialized THEN [range |-> r, err |-> "none"]
    ELSE [range |-> cRange_Include(cRange_Include(r, other.lo), other.hi),
          err |-> "none"]

\* cRange.IncludeRange: the range afterwards and the assertion that failed.
cRange_IncludeRange(r, other) ==
    IF ~r.isInitialized \/ ~other.isInitialized
    THEN [range |-> r, err |-> "AssertionError"]
    ELSE [range |-> cRange_Include(cRange_Include(r, other.lo), other.hi),
          err |-> "none"]

\* cRange.Span and cRange.Mid of an initialized range.
cRange_Span(r) == r.hi - r.lo
cRange_Mid(r) == (r.lo + r.hi) \div 2

\* gnipMath.Clamp, ClampHi and ClampLo
Clamp(val, min, max) == IF val < min THEN min ELSE IF val > max THEN max ELSE val
ClampHi(val, hi) == IF val > hi THEN hi ELSE val
ClampLo(val, lo) == IF val < lo THEN lo ELSE val

\* The reads and queries of a cRange that take no or one number.
RangeQueries == {"lo", "hi", "Span", "Mid", "Contains", "Clamp", "ClampHi", "ClampLo"}

\* r.lo, r.hi (through __getattr__), r.Span(), r.Mid(), r.Contains(val),
\* r.Clamp(val), r.ClampHi(val), r.ClampLo(val): each asserts _isInitialized
\* before it reads _lo or _hi.
cRange_query(r, op, val) ==
    IF ~r.isInitialized THEN [ret |-> "none", err |-> "AssertionError"]
    ELSE [ret |-> CASE op = "lo" -> r.lo
                    [] op = "hi" -> r.hi
                    [] op = "Span" -> cRange_Span(r)
                    [] op = "Mid" -> cRange_Mid(r)
                    [] op = "Contains" -> (val >= r.lo /\ val <= r.hi)
                    [] op = "Clamp" -> Clamp(val, r.lo, r.hi)
                    [] op = "ClampHi" -> ClampHi(val, r.hi)
                    [] op = "ClampLo" -> ClampLo(val, r.lo),
          err |-> "none"]

----------------------------------------------------------------------------
(* SpecRange: a cRange, a client that extends it *)

\* cRange() or cRange(lo, hi); included holds what the constructor passed to
\* Include.
InitRange ==
    /\ \/ range = EmptyRange /\ included = {}
       \/ \E a, b \in Values : range = cRange_init(a, b) /\ included = {a, b}
    /\ IdleCall
    /\ IdleAxis
    /\ IdleGame
    /\ IdleLoop
    /\ IdleHold
    /\ IdleTimers
    /\ IdleList
    /\ IdleEmitter
    /\ IdleRate
    /\ lastOp = "init"
    /\ err = "none"

\* range.Include(val)
RangeInclude(val) ==
    /\ range' = cRange_Include(range, val)
    /\ included' = included \cup {val}
    /\ lastOp' = "Include"
    /\ err' = "none"
    /\ args' = <<val>>
    /\ ret' = "none"
    /\ UNCHANGED <<coreVars, timerVars, axisVars, gameVars,
                 loopVars, holdVars>>

\* range.IncludeRange(cRange(a, b))
RangeIncludeRange(a, b) ==
    /\ LET r == cRange_IncludeRange(range, cRange_init(a, b))
       IN  /\ range' = r.range
           /\ err' = r.err
           /\ included' = IF r.err = "none" THEN included \cup {a, b} ELSE included
    /\ lastOp' = "IncludeRange"
    /\ args' = <<cRange_init(a, b)>>
    /\ ret' = "none"
    /\ UNCHANGED <<coreVars, timerVars, axisVars, gameVars,
                 loopVars, holdVars>>

\* range.IncludeRange(cRange())
RangeIncludeEmpty ==
    /\ LET r == cRange_IncludeRange(range, EmptyRange)
       IN  /\ range' = r.range
           /\ err' = r.err
    /\ lastOp' = "IncludeRange"
    /\ args' = <<EmptyRange>>
    /\ ret' = "none"
    /\ UNCHANGED <<coreVars, timerVars, included, axisVars, gameVars,
                 loopVars, holdVars>>

\* A read or query of range; val is ignored by the ones that take no number.
RangeQuery(op, val) ==
    /\ LET q == cRange_query(range, op, val)
       IN  /\ ret' = q.ret
           /\ err' = q.err
    /\ args' = <<val>>
    /\ lastOp' = op
    /\ UNCHANGED <<coreVars, timerVars, rangeVars, axisVars, gameVars,
                 loopVars, holdVars>>

NextRange ==
    \/ \E v \in Values : RangeInclude(v)
    \/ \E a, b \in Values : RangeIncludeRange(a, b)
    \/ RangeIncludeEmpty
    \/ \E op \in RangeQueries, v \in Values : RangeQuery(op, v)

SpecRange == InitRange /\ [][NextRange]_vars

----------------------------------------------------------------------------
(* Claims on cRange *)

SetMin(S) == CHOOSE x \in S : \A y \in S : x <= y
SetMax(S) == CHOOSE x \in S : \A y \in S : x >= y

\* C19: an initialized cRange has lo <= hi, after construction with two
\* arguments in either order and after any Include and IncludeRange calls,
\* and an initialized cRange stays initialized.
C19_RangeOrdered ==
    /\ [](range.isInitialized => range.lo <= range.hi)
    /\ [][range.isInitialized => range'.isInitialized]_vars

C19_Witness ==
    /\ lastOp = "IncludeRange"
    /\ err = "none"
    /\ range.isInitialized
    /\ range.lo < 0
    /\ range.hi > 0
    /\ Cardinality(included) >= 4

\* C20: after Include calls with the values v1..vn, n >= 1, on a cRange that
\* was empty, in any order, lo is the least and hi the greatest of the values,
\* Span() is hi - lo and Mid() is (lo + hi) / 2.
C20_RangeIsMinMax ==
    included # {} =>
        /\ range.isInitialized
        /\ range.lo = SetMin(included)
        /\ range.hi = SetMax(included)
        /\ cRange_Span(range) = SetMax(included) - SetMin(included)
        /\ 2 * cRange_Mid(range) = SetMin(included) + SetMax(included)

C20_Witness ==
    /\ lastOp = "Include"
    /\ Cardinality(included) = 3
    /\ range.lo = 0 - 2 * MaxValue
    /\ range.hi = 2
    /\ cRange_Span(range) = 2 * MaxValue + 2
    /\ cRange_Mid(range) = 1 - MaxValue

\* C21: on a cRange that never had a value included, reading lo or hi and
\* calling Span, Mid, Contains, Clamp, ClampHi, ClampLo or IncludeRange fail
\* with an AssertionError and leave the range uninitialized; Include succeeds
\* and initializes it.
C21_UninitializedRangeFails ==
    [][~range.isInitialized =>
          IF lastOp' = "Include"
          THEN err' = "none" /\ range'.isInitialized
          ELSE /\ lastOp' \in RangeQueries \cup {"IncludeRange"}
               /\ err' = "AssertionError"
               /\ range' = range]_vars

C21_Witness ==
    /\ ~range.isInitialized
    /\ lastOp = "ClampHi"
    /\ err = "AssertionError"

----------------------------------------------------------------------------
(* SpecMath: the free functions of gnipMath called on bounded inputs *)

MaxNum == 12
MaxTarget == 5

\* The multiple of target that the source's comment calls the base equation:
\* the largest one not above num.
NearestMultiple_Base(num, target) == (num \div target) * target

\* gnipMath.NearestMultiple; // of Python floors, as \div does.
NearestMultiple(num, target) == ((num + (target \div 2)) \div target) * target

\* Nothing of the emitter, the actor list or a rate policy is in use.
IdleCore == IdleRate /\ IdleEmitter /\ IdleList

InitMath ==
    /\ IdleCore
    /\ IdleUtil
    /\ lastOp = "init"
    /\ err = "none"

\* A call NearestMultiple(num, target).
CallNearestMultiple(num, target) ==
    /\ args' = <<num, target>>
    /\ ret' = NearestMultiple(num, target)
    /\ lastOp' = "NearestMultiple"
    /\ err' = "none"
    /\ UNCHANGED <<coreVars, timerVars, rangeVars, axisVars, gameVars,
                 loopVars, holdVars>>

NextMath ==
    \E num \in (0 - MaxNum)..MaxNum, target \in 1..MaxTarget :
        CallNearestMultiple(num, target)

SpecMath == InitMath /\ [][NextMath]_vars

\* C22: for every integer num and positive integer target, NearestMultiple
\* returns a multiple m of target with |m - num| <= target/2, and the larger
\* of the two multiples when num is exactly halfway between them, also for
\* negative num.
C22_NearestMultiple ==
    lastOp = "NearestMultiple" =>
        LET num == args[1]
            target == args[2]
        IN  /\ ret % target = 0
            /\ 2 * Abs(ret - num) <= target
            /\ (2 * Abs(ret - num) = target => ret > num)

C22_Witness ==
    /\ lastOp = "NearestMultiple"
    /\ args[1] < 0
    /\ 2 * (ret - args[1]) = args[2]

----------------------------------------------------------------------------
(* SpecColor: EmitterColor_Choice objects, constructed and asked for a color *)

\* Items a caller can put in the argument of EmitterColor_Choice: an RGB
\* tuple, a pygame.Color, and a string, which is no color value.
ColorItems ==
    {[type |-> "tuple", value |-> "red"], [type |-> "Color", value |-> "blue"],
     [type |-> "str", value |-> "green"]}

MaxChoices == 3

\* The sequences of n items.
RECURSIVE ColorSeqs(_)
ColorSeqs(n) ==
    IF n = 0 THEN {<<>>}
    ELSE {Append(s, x) : s \in ColorSeqs(n - 1), x \in ColorItems}

\* The arguments: a tuple or a list of up to MaxChoices items.
ColorChoiceArgs ==
    {[type |-> t, items |-> its] :
        t \in {"tuple", "list"},
        its \in UNION {ColorSeqs(n) : n \in 0..MaxChoices}}

\* What the caller holds after a call that raised: nothing.
NoObject == [kind |-> "None"]

\* EmitterColor_Choice.__init__: the object built and the assertion that failed.
EmitterColor_Choice(color_choices) ==
    IF color_choices.type # "tuple"
    THEN [obj |-> NoObject, err |-> "AssertionError"]
    ELSE IF \E i \in 1..Len(color_choices.items) :
                color_choices.items[i].type \notin {"tuple", "Color"}
    THEN [obj |-> NoObject, err |-> "AssertionError"]
    ELSE [obj |-> [kind |-> "Choice", colorChoices |-> color_choices.items],
          err |-> "none"]

\* EmitterColor_Choice.get_color: the outcomes of random.choice(colorChoices),
\* which raises IndexError on an empty sequence.
EmitterColor_Choice_get_color(self) ==
    IF Len(self.colorChoices) = 0
    THEN {[ret |-> NoObject, err |-> "IndexError"]}
    ELSE {[ret |-> self.colorChoices[i], err |-> "none"] :
            i \in 1..Len(self.colorChoices)}

\* A construction EmitterColor_Choice(color_choices); ret is the new object.
CallEmitterColor_Choice(color_choices) ==
    /\ LET c == EmitterColor_Choice(color_choices)
       IN  /\ ret' = c.obj
           /\ err' = c.err
    /\ args' = <<color_choices>>
    /\ lastOp' = "EmitterColor_Choice"
    /\ UNCHANGED <<coreVars, timerVars, rangeVars, axisVars, gameVars,
                 loopVars, holdVars>>

\* A call get_color() on the object the last construction returned.
CallGetColor ==
    /\ lastOp = "EmitterColor_Choice"
    /\ err = "none"
    /\ \E g \in EmitterColor_Choice_get_color(ret) :
          /\ ret' = g.ret
          /\ err' = g.err
    /\ args' = <<ret>>
    /\ lastOp' = "get_color"
    /\ UNCHANGED <<coreVars, timerVars, rangeVars, axisVars, gameVars,
                 loopVars, holdVars>>

InitColor ==
    /\ IdleCore
    /\ IdleUtil
    /\ lastOp = "init"
    /\ err = "none"

NextColor ==
    \/ \E cc \in ColorChoiceArgs : CallEmitterColor_Choice(cc)
    \/ CallGetColor

SpecColor == InitColor /\ [][NextColor]_vars

\* C23: constructing EmitterColor_Choice fails with an AssertionError when
\* the choice set is empty or holds an item that is no color value, and
\* get_color() of a constructed object never fails for lack of a choice.
C23_ChoiceNeverEmpty ==
    /\ lastOp = "EmitterColor_Choice" =>
          ((\/ Len(args[1].items) = 0
            \/ \E i \in 1..Len(args[1].items) :
                  args[1].items[i].type \notin {"tuple", "Color"})
             => err = "AssertionError")
    /\ lastOp = "get_color" => err = "none"

----------------------------------------------------------------------------
(* SpecField: EmitterField_PointAttract asked for accelerations *)

MaxRadiusExp == 2
MaxDist == 5

\* EmitterField_PointAttract.__init__; falloff_radius is <<>> for None and
\* <<r>> for a number r.
EmitterField_PointAttract(attract_point, accel_magnitude, falloff_radius) ==
    [kind |-> "PointAttract", attract_point |-> attract_point,
     accel_mag |-> accel_magnitude, falloff_radius |-> falloff_radius]

\* EmitterField_PointAttract.get_accel_vector: the vector returned is
\* ret / over. NormalizeSafe comes first, so what it raises is raised whatever
\* the radius; then the assertion on the radius.
PointAttract_get_accel_vector(f, position, cur_vel, py) ==
    LET attract_dir == cVector2_NormalizeSafe(VecSub(f.attract_point, position), py)
    IN  IF attract_dir.err # "none" THEN Raised(attract_dir.err)
        ELSE IF Len(f.falloff_radius) = 0
        THEN Fraction(VecScale(attract_dir.ret, f.accel_mag), attract_dir.over)
        ELSE IF ~(f.falloff_radius[1] > 0) THEN Raised("AssertionError")
        ELSE LET radius == f.falloff_radius[1]
                 distance == cVector2_Magnitude(VecSub(f.attract_point, position))
             IN  IF distance > radius
                 THEN Fraction(ZeroVec, 1)
                 ELSE Fraction(VecScale(attract_dir.ret,
                                        (radius - distance) * f.accel_mag),
                               radius * attract_dir.over)

\* The radii are powers of two and the magnitudes multiples of the largest
\* radius, so that the quotients of the source are whole (over = 1) and exact
\* in floating point.
FalloffRadii == {<<>>, <<0>>, <<-1>>} \cup {<<2 ^ k>> : k \in 0..MaxRadiusExp}
AccelMagnitudes == {m * (2 ^ MaxRadiusExp) : m \in {-1, 1, 2}}
AttractPoints == {<<0, 0>>, <<2, 1>>}

PointFields ==
    {EmitterField_PointAttract(p, m, r) :
        p \in AttractPoints, m \in AccelMagnitudes, r \in FalloffRadii}

\* Where a particle is, relative to the attract point: on it or on an axis
\* through it.
AxisOffsets ==
    {<<k, 0>> : k \in (0 - MaxDist)..MaxDist} \cup {<<0, k>> : k \in (0 - MaxDist)..MaxDist}

InitField ==
    /\ IdleCore
    /\ IdleUtil
    /\ lastOp = "init"
    /\ err = "none"

\* A call f.get_accel_vector(position, cur_vel) under interpreter py.
CallGetAccelVector(f, position, cur_vel, py) ==
    /\ LET a == PointAttract_get_accel_vector(f, position, cur_vel, py)
       IN  /\ ret' = a.ret
           /\ err' = a.err
    /\ args' = <<f, position, cur_vel, py>>
    /\ lastOp' = "get_accel_vector"
    /\ UNCHANGED <<coreVars, timerVars, rangeVars, axisVars, gameVars,
                 loopVars, holdVars>>

NextField ==
    \E f \in PointFields, d \in AxisOffsets, py \in PythonVersions :
        CallGetAccelVector(f, VecAdd(f.attract_point, d), <<1, 0>>, py)

SpecField == InitField /\ [][NextField]_vars

\* C24: get_accel_vector of a point field returns the zero vector, without
\* failing, when the position is the attract point, and the zero vector when
\* a falloff radius is set and the distance exceeds it; within the radius the
\* result points along the line to the attract point with strength
\* accel_magnitude * (radius - distance) / radius, which is 0 at the radius.
C24_PointAttract ==
    lastOp = "get_accel_vector" =>
        LET f == args[1]
            to_point == VecSub(f.attract_point, args[2])
            distance == cVector2_Magnitude(to_point)
            valid == Len(f.falloff_radius) = 0 \/ f.falloff_radius[1] > 0
        IN  /\ (distance = 0 /\ valid) => (err = "none" /\ ret = ZeroVec)
            /\ (valid /\ Len(f.falloff_radius) = 1) =>
                  LET radius == f.falloff_radius[1]
                  IN  /\ err = "none"
                      /\ distance > radius => ret = ZeroVec
                      /\ distance = radius => ret = ZeroVec
                      /\ (0 < distance /\ distance <= radius) =>
                            /\ cVector2_Magnitude(ret) * radius
                                  = Abs(f.accel_mag) * (radius - distance)
                            /\ (ret[1] * to_point[1] + ret[2] * to_point[2]) * radius
                                  = f.accel_mag * (radius - distance) * distance

----------------------------------------------------------------------------
(* gnpinput.AxisWatcher *)

NumJoys == 1
NumAxes == 2
MaxThresh == 3

\* Axis values reach one step beyond the largest threshold.
AxisValues == (0 - (MaxThresh + 1))..(MaxThresh + 1)

\* AxisWatcher.__init__: every axis starts neutral.
AxisWatcher(num_joys, num_axes_per_joy, press_threshold, reset_threshold) ==
    [axisLast |-> [j \in 0..(num_joys - 1) |-> [a \in 0..(num_axes_per_joy - 1) |-> 0]],
     press_thresh |-> press_threshold,
     reset_thresh |-> reset_threshold]

\* pygame.event.Event(AXISPRESS or AXISRELEASE, joy, axis, value, label)
SynthEvent(type, joy, axis, value) ==
    [type |-> type, joy |-> joy, axis |-> axis, value |-> value, label |-> type]

\* The events given to _process: axis motion, and an event of another type.
InputEvents ==
    {[type |-> "JOYAXISMOTION", joy |-> j, axis |-> a, value |-> v] :
        j \in 0..(NumJoys - 1), a \in 0..(NumAxes - 1), v \in AxisValues}
    \cup {[type |-> "JOYBUTTONDOWN", joy |-> 0, axis |-> 0, value |-> 0]}

\* One of the two release tests of _process, for direction d: st is the
\* watcher and the events synthesized so far.
AxisRelease(st, event, d) ==
    LET w == st.w
        beyond == IF d = -1 THEN event.value >= 0 - w.reset_thresh
                  ELSE event.value <= w.reset_thresh
    IN  IF beyond /\ w.axisLast[event.joy][event.axis] = d
        THEN [w |-> [w EXCEPT !.axisLast[event.joy][event.axis] = 0],
              synth_events |-> Append(st.synth_events,
                  SynthEvent("AXISRELEASE", event.joy, event.axis, d))]
        ELSE st

\* A press test that fires on every event beyond the threshold.
AxisPress_Repeating(st, event, d) ==
    LET w == st.w
        beyond == IF d = 1 THEN event.value >= w.press_thresh
                  ELSE event.value <= 0 - w.press_thresh
    IN  IF beyond
        THEN [w |-> [w EXCEPT !.axisLast[event.joy][event.axis] = d],
              synth_events |-> Append(st.synth_events,
                  SynthEvent("AXISPRESS", event.joy, event.axis, d))]
        ELSE st

\* A press test with exclusive thresholds.
AxisPress_Exclusive(st, event, d) ==
    LET w == st.w
        beyond == IF d = 1 THEN event.value > w.press_thresh
                  ELSE event.value < 0 - w.press_thresh
    IN  IF beyond /\ w.axisLast[event.joy][event.axis] # d
        THEN [w |-> [w EXCEPT !.axisLast[event.joy][event.axis] = d],
              synth_events |-> Append(st.synth_events,
                  SynthEvent("AXISPRESS", event.joy, event.axis, d))]
        ELSE st

\* One of the two press tests of _process, for direction d.
AxisPress(st, event, d) ==
    LET w == st.w
        beyond == IF d = 1 THEN event.value >= w.press_thresh
                  ELSE event.value <= 0 - w.press_thresh
    IN  IF beyond /\ w.axisLast[event.joy][event.axis] # d
        THEN [w |-> [w EXCEPT !.axisLast[event.joy][event.axis] = d],
              synth_events |-> Append(st.synth_events,
                  SynthEvent("AXISPRESS", event.joy, event.axis, d))]
        ELSE st

\* A _process that tests the presses before the releases.
AxisWatcher_process_PressFirst(w, event) ==
    IF event.type # "JOYAXISMOTION" THEN [w |-> w, synth_events |-> <<>>]
    ELSE AxisRelease(AxisRelease(
             AxisPress(AxisPress([w |-> w, synth_events |-> <<>>], event, 1),
                       event, -1),
             event, -1), event, 1)

\* AxisWatcher._process: the watcher afterwards and the list returned.
AxisWatcher_process(w, event) ==
    IF event.type # "JOYAXISMOTION" THEN [w |-> w, synth_events |-> <<>>]
    ELSE AxisPress(AxisPress(
             AxisRelease(AxisRelease([w |-> w, synth_events |-> <<>>], event, -1),
                         event, 1),
             event, 1), event, -1)

----------------------------------------------------------------------------
(* SpecAxis: an AxisWatcher fed events one at a time *)

\* What axh holds before any event was synthesized.
NoAxisHist ==
    [j \in 0..(NumJoys - 1) |-> [a \in 0..(NumAxes - 1) |->
        [d \in {-1, 1} |-> "none"]]]

\* axh after the events of one returned list, taken in order.
RECURSIVE AxisRecorded(_, _)
AxisRecorded(h, events) ==
    IF Len(events) = 0 THEN h
    ELSE LET e == Head(events)
         IN  AxisRecorded([h EXCEPT ![e.joy][e.axis][e.value] = e.type], Tail(events))

\* The thresholds are magnitudes: press above 0, reset from 0 up, below the
\* press threshold (the hysteresis the tests use) or not.
InitAxis ==
    /\ \E p \in 1..MaxThresh, r \in 0..MaxThresh :
          watcher = AxisWatcher(NumJoys, NumAxes, p, r)
    /\ axh = NoAxisHist
    /\ IdleCore
    /\ IdleTimers
    /\ IdleRange
    /\ IdleCall
    /\ IdleGame
    /\ IdleLoop
    /\ IdleHold
    /\ lastOp = "init"
    /\ err = "none"

\* A call watcher._process(event).
AxisProcess(event) ==
    /\ LET p == AxisWatcher_process(watcher, event)
       IN  /\ watcher' = p.w
           /\ ret' = p.synth_events
           /\ axh' = AxisRecorded(axh, p.synth_events)
    /\ args' = <<event>>
    /\ lastOp' = "_process"
    /\ err' = "none"
    /\ UNCHANGED <<coreVars, timerVars, rangeVars, gameVars,
                 loopVars, holdVars>>

NextAxis == \E event \in InputEvents : AxisProcess(event)

SpecAxis == InitAxis /\ [][NextAxis]_vars

----------------------------------------------------------------------------
(* Claims on the AxisWatcher *)

\* The thresholds form a hysteresis band.
Hysteresis == 0 < watcher.reset_thresh /\ watcher.reset_thresh < watcher.press_thresh

\* The events of a returned list continue, from the last kinds h, an
\* alternation of AXISPRESS and AXISRELEASE in each direction of each axis
\* that starts with AXISPRESS, with never both directions of an axis pressed.
RECURSIVE Alternates(_, _)
Alternates(h, events) ==
    IF Len(events) = 0 THEN TRUE
    ELSE LET e == Head(events)
             last == h[e.joy][e.axis]
             h2 == [h EXCEPT ![e.joy][e.axis][e.value] = e.type]
         IN  /\ e.type = "AXISPRESS" <=> last[e.value] # "AXISPRESS"
             /\ ~(h2[e.joy][e.axis][1] = "AXISPRESS" /\ h2[e.joy][e.axis][-1] = "AXISPRESS")
             /\ Alternates(h2, Tail(events))

\* C25: with 0 < reset_threshold < press_threshold, over any sequence of
\* events the AXISPRESS and AXISRELEASE events synthesized for a direction of
\* an axis strictly alternate, starting with AXISPRESS, and at most one
\* direction of an axis is pressed at any time.
C25_PressReleaseAlternate ==
    [][(Hysteresis /\ lastOp' = "_process") => Alternates(axh, ret')]_vars

C25_Witness ==
    /\ Hysteresis
    /\ lastOp = "_process"
    /\ Len(ret) = 2
    /\ axh[0][1][1] = "AXISRELEASE"
    /\ axh[0][1][-1] = "AXISPRESS"
    /\ axh[0][0][1] = "AXISPRESS"

\* C26: with 0 < reset < press, an event on a neutral axis yields exactly
\* AXISPRESS(+1) when value >= press, exactly AXISPRESS(-1) when
\* value <= -press, and nothing otherwise; on an axis pressed in direction d
\* it yields AXISRELEASE(d) exactly when d*value <= reset, and no event at all
\* when d*value > reset.
C26_InclusiveHysteresis ==
    [][(Hysteresis /\ lastOp' = "_process" /\ args'[1].type = "JOYAXISMOTION") =>
          LET e == args'[1]
              v == e.value
              d == watcher.axisLast[e.joy][e.axis]
          IN  IF d = 0
              THEN ret' = IF v >= watcher.press_thresh
                            THEN <<SynthEvent("AXISPRESS", e.joy, e.axis, 1)>>
                          ELSE IF v <= 0 - watcher.press_thresh
                            THEN <<SynthEvent("AXISPRESS", e.joy, e.axis, -1)>>
                          ELSE <<>>
              ELSE /\ (\E i \in 1..Len(ret') :
                          ret'[i] = SynthEvent("AXISRELEASE", e.joy, e.axis, d))
                      <=> d * v <= watcher.reset_thresh
                   /\ d * v > watcher.reset_thresh => ret' = <<>>]_vars

C26_Witness ==
    /\ Hysteresis
    /\ lastOp = "_process"
    /\ args[1].type = "JOYAXISMOTION"
    /\ args[1].axis = 0
    /\ watcher.axisLast[0][0] = -1
    /\ args[1].value = 0 - watcher.press_thresh
    /\ ret = <<>>
    /\ axh[0][0][-1] = "AXISPRESS"
    /\ axh[0][0][1] = "AXISRELEASE"

\* C27: one event that takes an axis pressed in direction d to or beyond the
\* press threshold of the opposite direction returns exactly two events,
\* AXISRELEASE(d) and then AXISPRESS(-d).
C27_FastTransition ==
    [][(lastOp' = "_process" /\ args'[1].type = "JOYAXISMOTION") =>
          LET e == args'[1]
              d == watcher.axisLast[e.joy][e.axis]
          IN  (d # 0 /\ (0 - d) * e.value >= watcher.press_thresh) =>
                  ret' = <<SynthEvent("AXISRELEASE", e.joy, e.axis, d),
                           SynthEvent("AXISPRESS", e.joy, e.axis, 0 - d)>>]_vars

C27_Witness ==
    /\ lastOp = "_process"
    /\ Len(ret) = 2
    /\ ret[1] = SynthEvent("AXISRELEASE", 0, 1, -1)
    /\ ret[2] = SynthEvent("AXISPRESS", 0, 1, 1)
    /\ args[1].value = watcher.press_thresh
    /\ watcher.axisLast[0][1] = 1

----------------------------------------------------------------------------
(* gnppygame.GameWithStates and the GameState objects it runs *)

MaxInstalls == 3

\* The GameState objects of the run; "None" is Python's None.
GameStates == {"s1", "s2", "s3"}

\* GameWithStates.__init__
GameWithStates_init == [state |-> "None", pending_state |-> "None"]

\* A change_state that switches at once.
GameWithStates_change_state_Immediate(g, new_state) ==
    IF g.pending_state # "None" THEN [game |-> g, err |-> "AssertionError"]
    ELSE [game |-> [g EXCEPT !.state = new_state], err |-> "none"]

\* GameWithStates.change_state: the game afterwards and the assertion that
\* failed.
GameWithStates_change_state(g, new_state) ==
    IF g.pending_state # "None" THEN [game |-> g, err |-> "AssertionError"]
    ELSE [game |-> [g EXCEPT !.pending_state = new_state], err |-> "none"]

\* A _do_state_change that empties the pending slot only after begin_state()
\* has returned.
GameWithStates_do_state_change_ClearsLate(g) ==
    IF g.pending_state # "None"
    THEN [game |-> [state |-> g.pending_state, pending_state |-> g.pending_state],
          begins |-> g.pending_state]
    ELSE [game |-> g, begins |-> "None"]

\* GameWithStates._do_state_change up to its call of begin_state(): the game
\* afterwards and the state whose begin_state() it calls, "None" for no call.
GameWithStates_do_state_change(g) ==
    IF g.pending_state # "None"
    THEN [game |-> [state |-> g.pending_state, pending_state |-> "None"],
          begins |-> g.pending_state]
    ELSE [game |-> g, begins |-> "None"]

----------------------------------------------------------------------------
(* SpecGame: a GameWithStates stepped by its frame loop; the states and the
   client call change_state *)

\* Nothing was requested, installed or begun. requests counts the calls of
\* change_state that returned, installs the assignments of a new current
\* state, begins the calls of begin_state(); begun is the state of the last
\* such call and calls what the last operation called on a state.
NoGameHist ==
    [requests |-> 0, installs |-> 0, begins |-> 0, begun |-> "None", calls |-> <<>>]

InitGame ==
    /\ game = GameWithStates_init
    /\ gpc = "idle"
    /\ gmh = NoGameHist
    /\ IdleCore
    /\ IdleTimers
    /\ IdleRange
    /\ IdleCall
    /\ IdleAxis
    /\ IdleLoop
    /\ IdleHold
    /\ lastOp = "init"
    /\ err = "none"

\* _do_state_change() with the begin_state() of the new state, which is
\* client code: by may_change it calls change_state(may_change), "None" for
\* a begin_state that leaves the game alone. first is the call made on a
\* state before _do_state_change was reached. An assertion that fails in
\* that change_state call leaves begin_state and the step as the exception.
DoStateChange(may_change, first) ==
    LET c == GameWithStates_do_state_change(game)
        asks == c.begins # "None" /\ may_change # "None"
                    /\ gmh.requests < MaxInstalls
        r == IF asks THEN GameWithStates_change_state(c.game, may_change)
             ELSE [game |-> c.game, err |-> "none"]
        b == r.game
    IN  /\ game' = b
        /\ err' = r.err
        /\ gmh' = [gmh EXCEPT
             !.requests = IF asks /\ r.err = "none" THEN @ + 1 ELSE @,
             !.installs = IF game.pending_state # "None" \/ b.state # game.state
                          THEN @ + 1 ELSE @,
             !.begins = IF c.begins # "None" THEN @ + 1 ELSE @,
             !.begun = IF c.begins # "None" THEN c.begins ELSE @,
             !.calls = IF c.begins # "None"
                       THEN first \o <<<<"begin_state", c.begins>>>> ELSE first]

\* change_state(new_state), called by the client between frames (gpc = "idle")
\* or by the current state from inside its step() (gpc = "in_step"). A failed
\* assertion inside step() ends that step: _do_state_change is not reached.
GameChangeState(new_state) ==
    /\ gmh.requests < MaxInstalls
    /\ LET c == GameWithStates_change_state(game, new_state)
       IN  /\ game' = c.game
           /\ err' = c.err
           /\ gpc' = IF c.err = "none" THEN gpc ELSE "idle"
           /\ gmh' = [gmh EXCEPT
                !.requests = IF c.err = "none" THEN @ + 1 ELSE @,
                !.installs = IF c.game.state # game.state THEN @ + 1 ELSE @,
                !.calls = <<>>]
    /\ lastOp' = "change_state"
    /\ UNCHANGED <<coreVars, timerVars, rangeVars, callVars, axisVars,
                 loopVars, holdVars>>

\* GameWithStates.step(time_delta) up to the point where the step() of the
\* current state runs; without a current state it only warns and goes on to
\* _do_state_change().
GameStepBegin(may_change) ==
    /\ gpc = "idle"
    /\ IF game.state # "None"
       THEN /\ gpc' = "in_step"
            /\ gmh' = [gmh EXCEPT !.calls = <<<<"step", game.state>>>>]
            /\ game' = game
            /\ err' = "none"
       ELSE /\ gpc' = "idle"
            /\ DoStateChange(may_change, <<>>)
    /\ lastOp' = "step"
    /\ UNCHANGED <<coreVars, timerVars, rangeVars, callVars, axisVars,
                 loopVars, holdVars>>

\* The step() of the current state returns and GameWithStates.step goes on
\* to _do_state_change().
GameStepEnd(may_change) ==
    /\ gpc = "in_step"
    /\ gpc' = "idle"
    /\ DoStateChange(may_change, <<<<"step_returned", game.state>>>>)
    /\ lastOp' = "step_end"
    /\ UNCHANGED <<coreVars, timerVars, rangeVars, callVars, axisVars,
                 loopVars, holdVars>>

NextGame ==
    \/ \E s \in GameStates : GameChangeState(s)
    \/ \E m \in GameStates \cup {"None"} : GameStepBegin(m)
    \/ \E m \in GameStates \cup {"None"} : GameStepEnd(m)

SpecGame == InitGame /\ [][NextGame]_vars

----------------------------------------------------------------------------
(* Claims on GameWithStates *)

\* C28: every state installed through change_state has begin_state() called
\* exactly once, after the step() of the previously current state returned
\* and before its own first step(); the current state never changes while a
\* state's step() is running.
C28_BeginStateOncePerInstall ==
    /\ [](/\ gmh.begins = gmh.installs
          /\ game.state # "None" => gmh.begun = game.state)
    /\ [][/\ gmh'.begins # gmh.begins =>
                /\ gmh'.begins = gmh.begins + 1
                /\ gpc' = "idle"
                /\ gmh'.calls[Len(gmh'.calls)] = <<"begin_state", game'.state>>
                /\ \/ lastOp' = "step_end"
                      /\ gmh'.calls[1] = <<"step_returned", game.state>>
                   \/ lastOp' = "step" /\ game.state = "None"
          /\ game'.state # game.state => gmh'.begins # gmh.begins
          /\ (gpc = "in_step" /\ lastOp' # "step_end") => game'.state = game.state
          /\ (lastOp' = "step" /\ gpc' = "in_step") =>
                (gmh.begun = game.state /\ gmh'.calls = <<<<"step", game.state>>>>)]_vars

C28_Witness ==
    /\ gmh.begins = 2
    /\ gmh.installs = 2
    /\ gmh.calls = <<<<"step_returned", "s1">>, <<"begin_state", "s2">>>>
    /\ game.state = "s2"
    /\ game.pending_state = "s3"
    /\ gpc = "idle"

\* C29: in no run of an Emitter is Particle.step called on a particle whose
\* can_reap() is true, that is, the assertion 'Should not be stepping a dead
\* particle' never fails, for every lifetime >= 0 of the lifetime policy, 0
\* included, and every dt >= 0. When that assertion fails the dead particle
\* stays in the emitter's list.
C29_NoDeadParticleStepped ==
    ~(/\ lastOp = "step"
      /\ err = "AssertionError"
      /\ \E i \in 1..Len(particles) : Particle_can_reap(particles[i]))

----------------------------------------------------------------------------
(* SpecScene: Emitters in an ActorList that a frame loop steps and then draws;
   the client appends the emitters, then starts and stops them between
   frames. The loop has
   no exception handler (Game.run_game_loop): a raised assertion ends the run *)

MaxEmitters == 2

\* Rate policies that are not complete when constructed.
SceneRates ==
    {EmitterRate_Burst(1), EmitterRate_DelayConstant(1),
     EmitterRate_DelayRangeWithLifetime(1, 2, 1)}

\* The emitters a client constructs, with constant policies; a lifetime of 0
\* gives particles that are born dead.
SceneEmitter(id, l, r) ==
    EmitterActor(id,
                 EmitterObj(<<0, 0>>, EmitterSpeed_Constant(1),
                            CHOOSE d \in ConstantDirections : TRUE,
                            EmitterLifetime_Constant(l), NoField),
                 r)

SceneEmitters(id) ==
    {SceneEmitter(id, 0, EmitterRate_Burst(1))}
        \cup {SceneEmitter(id, MaxLife, r) : r \in SceneRates}

InitScene ==
    /\ IdleList
    /\ IdleEmitter
    /\ IdleRate
    /\ lastOp = "init"
    /\ err = "none"
    /\ IdleUtil

\* Before the first frame: actors.append(Emitter(...))
SceneAppend ==
    /\ lastOp \in {"init", "append"}
    /\ err = "none"
    /\ nextId <= MaxEmitters
    /\ \E a \in SceneEmitters(nextId) : actors' = Append(actors, a)
    /\ nextId' = nextId + 1
    /\ called' = <<>>
    /\ lastOp' = "append"
    /\ lastDt' = 0
    /\ UNCHANGED <<rateVars, emVars, justDied, everDied, clock, err>>
    /\ UNCHANGED utilVars

\* Between frames: actors[i].start() or actors[i].stop()
SceneStartStop(i, can_emit) ==
    /\ lastOp # "step"
    /\ err = "none"
    /\ actors[i].em.can_emit # can_emit
    /\ actors' = [actors EXCEPT ![i].em.can_emit = can_emit]
    /\ called' = <<>>
    /\ lastOp' = IF can_emit THEN "start" ELSE "stop"
    /\ lastDt' = 0
    /\ UNCHANGED <<rateVars, emVars, nextId, justDied, everDied, clock, err>>
    /\ UNCHANGED utilVars

\* The first half of a frame: actors.step(dt). delays[i] is what
\* random.uniform returns to the rate policy of actors[i] in this step.
SceneStep(dt) ==
    /\ lastOp # "step"
    /\ err = "none"
    /\ actors # <<>>
    /\ clock + dt <= MaxLife
    /\ \E delays \in [1..Len(actors) -> 0..2] :
          /\ \A i \in 1..Len(actors) : delays[i] \in DelayChoices(actors[i].rate)
          /\ LET r == ActorList_step(
                        [i \in 1..Len(actors) |-> [actors[i] EXCEPT !.delay = delays[i]]],
                        dt)
             IN  /\ actors' = r.actors
                 /\ called' = r.called
                 /\ err' = r.err
    /\ clock' = clock + dt
    /\ lastDt' = dt
    /\ lastOp' = "step"
    /\ UNCHANGED <<rateVars, emVars, nextId, justDied, everDied>>
    /\ UNCHANGED utilVars

\* The second half of a frame: actors.draw(surface)
SceneDraw ==
    /\ lastOp = "step"
    /\ err = "none"
    /\ LET r == ActorList_draw(actors)
       IN  /\ called' = r.called
           /\ err' = r.err
    /\ lastOp' = "draw"
    /\ lastDt' = 0
    /\ UNCHANGED <<rateVars, emVars, actors, nextId, justDied, everDied, clock>>
    /\ UNCHANGED utilVars

NextScene ==
    \/ SceneAppend
    \/ \E i \in 1..Len(actors), c \in BOOLEAN : SceneStartStop(i, c)
    \/ \E dt \in 1..MaxLife : SceneStep(dt)
    \/ SceneDraw

SpecScene == InitScene /\ [][NextScene]_vars

\* The actor of list s whose identity is id.
ActorOf(s, id) == s[CHOOSE i \in 1..Len(s) : s[i].id = id]

\* C30: of the Emitters of an ActorList that a frame loop steps and then
\* draws, with rate policies not complete at construction and start/stop
\* calls between frames, none has step() or draw() called while its
\* can_reap() is true: the assertions of Emitter.step and Emitter.draw hold.
C30_NoDeadEmitterSteppedOrDrawn ==
    [][(lastOp' \in {"step", "draw"}) =>
          \A k \in 1..Len(called') :
              ~Actor_can_reap(ActorOf(actors, called'[k]))]_vars

C30_Witness ==
    /\ lastOp = "draw"
    /\ err = "none"
    /\ nextId = 3
    /\ called = <<2>>
    /\ Len(actors) = 1
    /\ ~actors[1].em.can_emit
    /\ actors[1].particles = <<>>

----------------------------------------------------------------------------
(* Claims on the countdown of an Emitter's rate policy *)

\* C31 as stated: for an Emitter with EmitterRate_DelayRangeWithLifetime(lo,
\* hi, L), is_complete() is true once the dt of the Emitter.step calls sum to
\* at least L, whatever start()/stop() calls are interleaved.
C31_CompleteAfterSteppedLifetime ==
    (rate.kind = "DelayRangeWithLifetime" /\ clock >= emh.life0) => Rate_is_complete(rate)

\* C31, amended: for an Emitter with EmitterRate_DelayRangeWithLifetime(lo,
\* hi, L), is_complete() is true exactly when the dt of the Emitter.step
\* calls taken while can_emit is true sum to at least L (a step taken while
\* stopped does not run the countdown), and once true it stays true.
C31_CompleteAfterEmittingLifetime ==
    /\ [](rate.kind = "DelayRangeWithLifetime" =>
            (Rate_is_complete(rate) <=> emh.emitDt >= emh.life0))
    /\ [][(rate.kind = "DelayRangeWithLifetime" /\ Rate_is_complete(rate)) =>
            Rate_is_complete(rate')]_vars

C31_Witness ==
    /\ rate.kind = "DelayRangeWithLifetime"
    /\ emh.life0 = 2
    /\ emh.stoppedSteps >= 1
    /\ emh.emitDt = 2
    /\ clock > emh.emitDt
    /\ Rate_is_complete(rate)
    /\ lastOp = "step"
    /\ em.can_emit

----------------------------------------------------------------------------
(* SpecLive: one Emitter, with or without a field, stepped once per frame by a
   frame loop that goes on for as long as no step raises, and in which time
   keeps passing; the client starts and stops the emitter between frames *)

MaxDrag == 3

\* The rate policies of the run: those that can complete.
LiveRates ==
    {EmitterRate_Burst(n) : n \in 1..MaxBurst}
    \cup {EmitterRate_DelayRangeWithLifetime(1, 2, 1)}

LiveFields ==
    {NoField, EmitterField_Constant(Gravity)}
    \cup {EmitterField_Drag(k) : k \in 0..MaxDrag}

LiveEmitters ==
    {EmitterObj(<<0, 0>>, EmitterSpeed_Constant(1), d,
                EmitterLifetime_Constant(l), f) :
        d \in ConstantDirections, l \in 0..MaxLife, f \in LiveFields}

InitLive ==
    /\ em \in LiveEmitters
    /\ rate \in LiveRates
    /\ particles = <<>>
    /\ hist = NoHist
    /\ emh = NoEmHist
    /\ IdleList
    /\ lastOp = "init"
    /\ err = "none"
    /\ IdleUtil

\* Game.request_exit(), called by the client before the frame loop is run:
\* the loop then takes no frame.
RequestExit ==
    /\ err = "none"
    /\ ~request_exit
    /\ request_exit' = TRUE
    /\ lastOp' = "request_exit"
    /\ UNCHANGED <<frame, err, coreVars, timerVars, rangeVars, callVars, axisVars,
                   gameVars, holdVars>>

\* One frame of run_game_loop, taken while _request_exit is not set:
\* base_input(), which calls request_exit() when the window is closed or
\* ESC is down (quit), then step(dt), here emitter.step(dt), which runs in
\* that frame all the same. The histories are not kept in this
\* specification. The loop has no exception handler: a step that raises is
\* the last.
LiveStep(dt, quit) ==
    /\ err = "none"
    /\ ~request_exit
    /\ request_exit' = quit
    /\ lastOp' = "step"
    /\ lastDt' = dt
    /\ IF Emitter_can_reap(particles, rate)
       THEN /\ err' = "AssertionError"
            /\ UNCHANGED <<rate, particles, nextId>>
       ELSE \E delay \in DelayChoices(rate) :
              \E res \in {Emitter_step_emit(em, rate, dt, delay)} :
                  /\ Len(particles) + res.count <= MaxParticles
                  /\ \E d \in [1..res.count -> Draws(em)] :
                        \E st \in {Emitter_step_particles(
                                       em, particles \o Emitted(em, d, res.count, nextId),
                                       dt)} :
                            /\ particles' = st.actors
                            /\ err' = st.err
                  /\ rate' = res.rate
                  /\ nextId' = nextId + (IF res.count > 0 THEN res.count ELSE 0)
    /\ frame' = 1 - frame
    /\ UNCHANGED <<hist, em, emh, actors, called, justDied, everDied, clock>>
    /\ UNCHANGED <<timerVars, rangeVars, callVars, axisVars, gameVars, holdVars>>

\* The client starts and stops the emitter while the loop runs.
NextLive ==
    \/ \E dt \in 0..MaxLife, quit \in BOOLEAN : LiveStep(dt, quit)
    \/ err = "none" /\ ~request_exit /\ Start
    \/ err = "none" /\ ~request_exit /\ Stop
    \/ RequestExit

\* What the frame loop owes while no exception has ended it and no exit is
\* requested (while not self._request_exit): one more frame in which time has
\* passed.
FrameDue ==
    /\ err = "none"
    /\ ~request_exit
    /\ frame' = 1 - frame
    /\ lastDt' \in 1..MaxLife

SpecLive == InitLive /\ [][NextLive]_vars /\ WF_frame(FrameDue)

\* C32: once the rate policy of an Emitter is complete, its particle count
\* never increases and, the frame loop going on calling step(dt) with dt > 0
\* (no exit is requested), the Emitter becomes reapable, whatever finite
\* lifetime its particles were given and with a Drag or constant field
\* attached as well.
C32_CompleteLeadsToReapable ==
    /\ [][Rate_is_complete(rate) => Len(particles') <= Len(particles)]_vars
    /\ (Rate_is_complete(rate) ~> (Emitter_can_reap(particles, rate) \/ request_exit))

\* C33: over any interleaving of step, start and stop, an Emitter with
\* Burst(n) has created no particle and its burst is not complete as long as
\* every step it took was taken while stopped, and has created exactly n
\* particles, never more, once it has taken a step while can_emit was true.
C33_BurstEmitsOnce ==
    rate.kind = "Burst" =>
        /\ nextId - 1 <= rate.num_particles
        /\ IF emh.steps = emh.stoppedSteps
           THEN nextId = 1 /\ ~Rate_is_complete(rate)
           ELSE nextId - 1 = rate.num_particles /\ Rate_is_complete(rate)

C33_Witness ==
    /\ rate.kind = "Burst"
    /\ rate.num_particles = 2
    /\ emh.stoppedSteps = 1
    /\ emh.steps = 3
    /\ emh.emitDt >= 2
    /\ nextId = 3
    /\ particles # <<>>
    /\ em.can_emit
    /\ lastOp = "step"
    /\ err = "none"

----------------------------------------------------------------------------
(* Claims on the Drag field *)

\* The square of the magnitude of v; magnitudes are compared by their squares.
SpeedSq(v) == v[1] * v[1] + v[2] * v[2]

\* C34: with an EmitterField_Drag(k), k >= 0, attached to an Emitter, in every
\* Emitter.step(dt), dt >= 0, no particle that is held before and after the
\* step has a larger speed after it than before, a drag k2 < k in the place of
\* k would not have left it a smaller speed, and k = 0 leaves its velocity as
\* it was.
C34_DragNeverSpeedsUp ==
    [][(em.field_obj.kind = "Drag" /\ lastOp' = "step") =>
          \A i \in 1..Len(particles), j \in 1..Len(particles') :
              particles[i].id = particles'[j].id =>
                  /\ SpeedSq(particles'[j].vel) <= SpeedSq(particles[i].vel)
                  /\ \A k2 \in 0..em.field_obj.percent_per_second :
                        SpeedSq(ApplyField([em EXCEPT !.field_obj = EmitterField_Drag(k2)],
                                           <<particles[i]>>, lastDt')[1].vel)
                            >= SpeedSq(particles'[j].vel)
                  /\ (em.field_obj.percent_per_second = 0 =>
                        particles'[j].vel = particles[i].vel)]_vars

----------------------------------------------------------------------------
(* Claims on the pending slot of GameWithStates *)

\* C35 as stated, its last part: when a step of the game has returned, the
\* end-of-step switch made or not, the pending slot is empty, also when the
\* begin_state() of the new state requested a change itself.
C35_SlotEmptyAfterSwitch ==
    (lastOp \in {"step", "step_end"} /\ gpc = "idle") => game.pending_state = "None"

\* C35, amended: GameWithStates holds at most one pending state change. change_state
\* called while a change is pending fails with an assertion and leaves the
\* pending state and the current state as they were; called with the slot
\* empty it fills the slot and leaves the current state. The switch at the
\* end of a step installs the pending state and empties the slot before
\* begin_state() runs: a begin_state() that requests a change itself is not
\* refused, and after the step the slot holds that request and nothing else.
C35_OnePendingChange ==
    [][/\ lastOp' = "change_state" =>
            IF game.pending_state # "None"
            THEN err' = "AssertionError" /\ game' = game
            ELSE /\ err' = "none"
                 /\ game'.pending_state # "None"
                 /\ game'.state = game.state
       /\ (lastOp' \in {"step", "step_end"} /\ gpc' = "idle") =>
            /\ err' = "none"
            /\ IF game.pending_state # "None"
               THEN /\ game'.state = game.pending_state
                    /\ gmh'.calls[Len(gmh'.calls)] = <<"begin_state", game'.state>>
               ELSE game'.state = game.state
            /\ IF gmh'.requests = gmh.requests
               THEN game'.pending_state = "None"
               ELSE /\ game.pending_state # "None"
                    /\ game'.pending_state # "None"]_vars

C35_Witness ==
    /\ lastOp = "change_state"
    /\ err = "AssertionError"
    /\ game.state = "s1"
    /\ game.pending_state = "s2"
    /\ gmh.begins = 1
    /\ gmh.requests = 2
    /\ gpc = "idle"

----------------------------------------------------------------------------
(* Claim on reap() of the gnpactor classes *)

\* C36: for every actor whose class provides reap() (LifetimeActor and its
\* subclasses, AlphaRect, PulseCircle of any lifetime, the looping lifetime 0
\* included), once a client has called reap() on it can_reap() is true, and
\* the next ActorList.step, whatever its dt, removes the actor.
C36_ReapedActorIsReapable ==
    [][\A i \in 1..Len(actors) :
          (/\ lastOp' = "actor_reap"
           /\ HasReap(actors[i])
           /\ actors' = [actors EXCEPT ![i] = Actor_reap(actors[i])])
          => /\ Actor_can_reap(actors'[i])
             /\ \A dt \in 0..MaxLife :
                   actors[i].id \notin RangeOf(IdsOf(ActorList_step(actors', dt).actors))]_vars

----------------------------------------------------------------------------
(* Claim on the carryover of the delay policies *)

\* C37: after every how_many(dt) call, dt >= 0, on a DelayConstant(delay)
\* policy with delay > 0, the carryover satisfies 0 <= carryover < delay, and
\* (the total count returned so far) * delay + carryover equals the sum of all
\* the dt passed so far: no time is lost and none is counted twice.
C37_CarryoverConservesTime ==
    (rate.kind = "DelayConstant" /\ lastOp = "how_many") =>
        /\ 0 <= rate.delta_carryover
        /\ rate.delta_carryover < rate.emitDelay
        /\ hist.sumCount * rate.emitDelay + rate.delta_carryover = hist.sumDt

C37_Witness ==
    /\ rate.kind = "DelayConstant"
    /\ lastOp = "how_many"
    /\ rate.emitDelay = 2
    /\ hist.calls = 4
    /\ hist.lastDt = 0
    /\ hist.lastCount = 0
    /\ hist.sumCount = 2
    /\ hist.sumDt = 5
    /\ rate.delta_carryover = 1

----------------------------------------------------------------------------
(* Claim on the rate policy of a stopped Emitter *)

\* C38: a step(dt) taken while the Emitter is stopped leaves the state of its
\* rate policy (carryover, countdown, completion flag) as it was, and so do
\* start(), stop() and set_position(). The step after start() therefore emits
\* what its own dt and the carryover held before stop() warrant,
\* int((dt + carryover) / delay), and for a DelayConstant policy the particles
\* emitted so far and the carryover always account for the time stepped while
\* emitting and for none of the time stepped while stopped.
C38_NoCatchUpAfterStop ==
    /\ [][(lastOp' # "step" \/ ~em.can_emit) =>
              /\ rate'.delta_carryover = rate.delta_carryover
              /\ rate'.emitter_lifetime_remaining = rate.emitter_lifetime_remaining
              /\ rate'.is_complete = rate.is_complete
              /\ nextId' = nextId]_vars
    /\ [][(/\ lastOp' = "step"
           /\ em.can_emit
           /\ rate.kind # "Burst"
           /\ hist'.calls = hist.calls + 1) =>
              nextId' - nextId =
                  PyIntDiv(lastDt' + rate.delta_carryover, hist'.lastDelay)]_vars
    /\ [](rate.kind = "DelayConstant" =>
              (nextId - 1) * rate.emitDelay + rate.delta_carryover = emh.emitDt)

C38_Witness ==
    /\ rate.kind = "DelayConstant"
    /\ rate.emitDelay = 2
    /\ lastOp = "step"
    /\ em.can_emit
    /\ emh.steps = 3
    /\ emh.stoppedSteps = 1
    /\ emh.emitDt = 2
    /\ clock = 3
    /\ lastDt = 1
    /\ nextId = 2
    /\ rate.delta_carryover = 0

----------------------------------------------------------------------------
(* Claim on a callback that registers a timer *)

\* C39: a callback that calls add(delay, cb), delay > 0, while
\* TimerManager.step is firing it does not disturb that step. The new timer
\* is in the list when the step returns and was not fired in it; every timer
\* that was in the list and expired in the step fired exactly once in it, and
\* no other did. A timer stays in the list as long as it has not fired and
\* leaves it when it fires, so the new timer fires exactly once, in the later
\* step that takes the elapsed time beyond its trigger time.
C39_AddInsideCallback ==
    /\ [][(lastOp' = "step" /\ Len(tmh'.reg) > Len(tmh.reg)) =>
            /\ \A k \in Len(tmh.reg) + 1 .. Len(tmh'.reg) :
                  /\ tmh'.reg[k].at = elapsed_seconds'
                  /\ Cardinality({j \in 1..Len(timers') : timers'[j].id = k}) = 1
                  /\ FiredIn(tmh'.log, k) = 0
                  /\ tmh'.fires[k] = 0
            /\ \A i \in 1..Len(timers) :
                  FiredIn(tmh'.log, timers[i].id) =
                      IF Timer_expired(timers[i], elapsed_seconds') THEN 1 ELSE 0
            /\ Len(tmh'.log) =
                  Cardinality({i \in 1..Len(timers) :
                                  Timer_expired(timers[i], elapsed_seconds')})]_vars
    /\ [][lastOp' = "step" =>
            \A i \in 1..Len(timers) :
                Timer_expired(timers[i], elapsed_seconds') =>
                    tmh'.fires[timers[i].id] = 1]_vars
    /\ [](\A k \in 1..Len(tmh.reg) :
            /\ tmh.fires[k] \in {0, 1}
            /\ tmh.fires[k] = 0 <=> k \in RangeOf(IdsOf(timers)))

\* The first timer fired in the step that reached 1 second and its callback
\* registered the second at that moment; the second fired in the step that
\* reached 3 seconds, and the third, which its callback registered, is kept.
C39_Witness ==
    /\ lastOp = "step"
    /\ elapsed_seconds = 3
    /\ tmh.reg = <<Registration(0, 0, "timer_fired"),
                   Registration(1, ReAddDelay, "timer_fired"),
                   Registration(3, ReAddDelay, "timer_fired")>>
    /\ tmh.fires = <<1, 1, 0>>
    /\ IdsOf(tmh.log) = <<2>>
    /\ IdsOf(timers) = <<3>>

----------------------------------------------------------------------------
(* gnpinput.HoldWatcher *)

\* The countdown a DOWN event starts, in seconds.
HoldTime == 2

\* An input event with the attributes the HoldWatcher reads; an event type
\* leaves the attributes it does not have at 0.
HoldInput(type, key, button, joy, axis, value) ==
    [type |-> type, key |-> key, button |-> button, joy |-> joy, axis |-> axis,
     value |-> value]

DownTypes == {"KEYDOWN", "MOUSEBUTTONDOWN", "JOYBUTTONDOWN", "AXISPRESS"}

\* _make_hold_dict_key(event): the initiating event type and the data that
\* tell the inputs of that type apart. The data are a tuple here for every
\* type, and the None of an event that is no input event is <<"None", <<>>>>.
make_hold_dict_key(event) ==
    IF event.type \in {"KEYDOWN", "KEYUP"} THEN <<"KEYDOWN", <<event.key>>>>
    ELSE IF event.type \in {"MOUSEBUTTONDOWN", "MOUSEBUTTONUP"}
         THEN <<"MOUSEBUTTONDOWN", <<event.button>>>>
    ELSE IF event.type \in {"JOYBUTTONDOWN", "JOYBUTTONUP"}
         THEN <<"JOYBUTTONDOWN", <<event.joy, event.button>>>>
    ELSE IF event.type \in {"AXISPRESS", "AXISRELEASE"}
         THEN <<"AXISPRESS", <<event.joy, event.axis, event.value>>>>
    ELSE <<"None", <<>>>>

\* del d[key] and d[key] = v on a dict held as a function.
DictDel(d, key) == [k \in DOMAIN d \ {key} |-> d[k]]
DictSet(d, key, v) == [k \in DOMAIN d \cup {key} |-> IF k = key THEN v ELSE d[k]]

\* What step() raises instead of building the HOLD event of the dict key k:
\* unpacking the key None fails with TypeError, and a key of no initiating
\* type reaches the raise of the last branch.
HoldRaises(k) ==
    IF k[1] \in DownTypes THEN "none"
    ELSE IF k[1] = "None" THEN "TypeError"
    ELSE "Exception"

\* The HOLD event step() builds for the dict key k of an initiating type.
HoldEvent(k) ==
    CASE k[1] = "KEYDOWN" -> [type |-> "HOLD", origtype |-> k[1], data |-> k[2]]
      [] k[1] = "MOUSEBUTTONDOWN" -> [type |-> "HOLD", origtype |-> k[1], data |-> k[2]]
      [] k[1] = "JOYBUTTONDOWN" -> [type |-> "HOLD", origtype |-> k[1], data |-> k[2]]
      [] k[1] = "AXISPRESS" -> [type |-> "HOLD", origtype |-> k[1], data |-> k[2]]

\* The orders in which a dict with the keys S can be iterated: insertion
\* order under Python 3, an order of the interpreter's choosing under Python 2.
DictOrders(S) ==
    {o \in [1..Cardinality(S) -> S] : \A i, j \in 1..Cardinality(S) : o[i] = o[j] => i = j}

\* The first loop of HoldWatcher.step from the i-th key of the order on: the
\* countdown of the key is decremented and, when it has run out, its HOLD
\* event is posted. A key that has no HOLD event ends the loop with what was
\* done so far: the keys before it decremented and their events posted, the
\* keys after it untouched, and no key popped.
RECURSIVE HoldStepLoop(_, _, _, _, _)
HoldStepLoop(timers0, order, i, delta, posted) ==
    IF i > Len(order)
    THEN [holdTimers |-> [k \in {x \in DOMAIN timers0 : timers0[x] > 0} |-> timers0[k]],
          posted |-> posted, err |-> "none"]
    ELSE LET k == order[i]
             counted == [timers0 EXCEPT ![k] = @ - delta]
         IN  IF counted[k] > 0 THEN HoldStepLoop(counted, order, i + 1, delta, posted)
             ELSE IF HoldRaises(k) # "none"
             THEN [holdTimers |-> counted, posted |-> posted, err |-> HoldRaises(k)]
             ELSE HoldStepLoop(counted, order, i + 1, delta,
                               Append(posted, HoldEvent(k)))

\* HoldWatcher.step(delta) on a dict iterated in the given order: posted are
\* the HOLD events in the order of their posting; the keys whose countdown
\* has run out are popped when the first loop has ended.
HoldWatcher_step(timers0, order, delta) ==
    HoldStepLoop(timers0, order, 1, delta, <<>>)

\* The loop of HoldWatcher.get over the events from index i on.
RECURSIVE HoldEvents(_, _, _)
HoldEvents(timers0, events, i) ==
    IF i > Len(events) THEN timers0
    ELSE LET e == events[i]
             key == make_hold_dict_key(e)
             dropped == IF key \in DOMAIN timers0 THEN DictDel(timers0, key)
                        ELSE timers0
             started == IF e.type \in DownTypes THEN DictSet(dropped, key, HoldTime)
                        ELSE dropped
         IN  HoldEvents(started, events, i + 1)

\* A get that handles the events first and steps afterwards.
HoldWatcher_get_StepsLast(timers0, order, events, delta) ==
    LET d == HoldEvents(timers0, events, 1)
        s == HoldWatcher_step(d, CHOOSE o \in DictOrders(DOMAIN d) : TRUE, delta)
    IN  [holdTimers |-> s.holdTimers, posted |-> s.posted, err |-> s.err,
         ret |-> events]

\* HoldWatcher.get(events, delta) on a dict iterated in the given order
HoldWatcher_get(timers0, order, events, delta) ==
    LET s == HoldWatcher_step(timers0, order, delta)
    IN  IF s.err # "none"
        THEN [holdTimers |-> s.holdTimers, posted |-> s.posted, err |-> s.err,
              ret |-> "none"]
        ELSE [holdTimers |-> HoldEvents(s.holdTimers, events, 1),
              posted |-> s.posted, err |-> "none", ret |-> events]

----------------------------------------------------------------------------
(* SpecHold: a HoldWatcher fed one event list and one delta per frame *)

MaxEvents == 2
MaxHoldClock == 3

\* The inputs of the run, one of each kind, as the pair of the event that
\* presses and the event that releases it. The key and the mouse button have
\* the same number.
HoldInputs ==
    {<<HoldInput("KEYDOWN", 1, 0, 0, 0, 0), HoldInput("KEYUP", 1, 0, 0, 0, 0)>>,
     <<HoldInput("MOUSEBUTTONDOWN", 0, 1, 0, 0, 0),
       HoldInput("MOUSEBUTTONUP", 0, 1, 0, 0, 0)>>,
     <<HoldInput("JOYBUTTONDOWN", 0, 1, 0, 0, 0),
       HoldInput("JOYBUTTONUP", 0, 1, 0, 0, 0)>>,
     <<HoldInput("AXISPRESS", 0, 0, 0, 0, 1), HoldInput("AXISRELEASE", 0, 0, 0, 0, 1)>>}

HoldKeys == {make_hold_dict_key(p[1]) : p \in HoldInputs}

\* The event lists of a frame: up to MaxEvents events of one input, or one
\* event that is no input event.
HoldEventLists ==
    {<<HoldInput("QUIT", 0, 0, 0, 0, 0)>>}
    \cup UNION {[1..n -> {p[1], p[2]}] : n \in 0..MaxEvents, p \in HoldInputs}

\* The history of one input: whether its last event was the DOWN and, while
\* it is pressed, the delta accumulated by the get() calls after the one that
\* delivered that DOWN and the HOLD events posted for it since. A release
\* starts the history again.
NoPress == [pressed |-> FALSE, since |-> 0, holds |-> 0]

RECURSIVE PressRecorded(_, _, _)
PressRecorded(h, events, i) ==
    IF i > Len(events) THEN h
    ELSE LET e == events[i]
             key == make_hold_dict_key(e)
         IN  IF key \notin HoldKeys THEN PressRecorded(h, events, i + 1)
             ELSE IF e.type \in DownTypes
                  THEN PressRecorded([h EXCEPT ![key] =
                            [pressed |-> TRUE, since |-> 0, holds |-> 0]], events, i + 1)
                  ELSE PressRecorded([h EXCEPT ![key] = NoPress], events, i + 1)

InitHold ==
    /\ holder = [k \in {} |-> 0]
    /\ hwh = [press |-> [k \in HoldKeys |-> NoPress], posted |-> {}, elapsed |-> 0]
    /\ IdleCore
    /\ IdleTimers
    /\ IdleRange
    /\ IdleCall
    /\ IdleAxis
    /\ IdleGame
    /\ IdleLoop
    /\ lastOp = "init"
    /\ err = "none"

\* The number of times the event e is in the sequence of events s.
Times(s, e) == Cardinality({i \in 1..Len(s) : s[i] = e})

\* hold_watcher.get(events, delta), the dict iterated in the given order
HoldGet(order, events, delta) ==
    /\ hwh.elapsed + delta <= MaxHoldClock
    /\ \E r \in {HoldWatcher_get(holder, order, events, delta)} :
          LET aged == [k \in HoldKeys |->
                         IF hwh.press[k].pressed
                         THEN [hwh.press[k] EXCEPT
                                 !.since = @ + delta,
                                 !.holds = @ + Times(r.posted, HoldEvent(k))]
                         ELSE [hwh.press[k] EXCEPT
                                 !.holds = @ + Times(r.posted, HoldEvent(k))]]
          IN  /\ holder' = r.holdTimers
              /\ err' = r.err
              /\ hwh' = [press |-> PressRecorded(aged, events, 1),
                         posted |-> {r.posted[i] : i \in 1..Len(r.posted)},
                         elapsed |-> hwh.elapsed + delta]
    /\ lastOp' = "get"
    /\ UNCHANGED <<coreVars, timerVars, rangeVars, callVars, axisVars, gameVars,
                 loopVars>>

NextHold ==
    \E order \in DictOrders(DOMAIN holder), events \in HoldEventLists,
       delta \in 0..MaxHoldClock :
        HoldGet(order, events, delta)

SpecHold == InitHold /\ [][NextHold]_vars

----------------------------------------------------------------------------
(* Claim on the HoldWatcher *)

\* C40: for each pressed input (key, mouse button, joystick button, axis
\* direction) the HoldWatcher posts a HOLD event exactly once, in the get()
\* whose delta takes the time accumulated since the DOWN / AXISPRESS to 2.0
\* seconds or more, with no matching UP / AXISRELEASE and no repeated DOWN
\* delivered before that get(); it posts none for a press whose release was
\* delivered before, and the delta of the get() that delivered the DOWN does
\* not count.
C40_HoldPostedOnce ==
    /\ [](\A k \in HoldKeys :
            hwh.press[k].holds = IF hwh.press[k].since >= HoldTime THEN 1 ELSE 0)
    /\ [][lastOp' = "get" =>
            hwh'.posted =
                {HoldEvent(k) : k \in {x \in HoldKeys :
                    /\ hwh.press[x].pressed
                    /\ hwh.press[x].since < HoldTime
                    /\ hwh.press[x].since + (hwh'.elapsed - hwh.elapsed) >= HoldTime}}]_vars

\* The key was held past 2 seconds and got its HOLD in an earlier get(); the
\* axis direction reached 2 seconds in the last get(), which posted its HOLD;
\* the mouse button, pressed later, is still counting down.
C40_Witness ==
    /\ lastOp = "get"
    /\ err = "none"
    /\ hwh.elapsed = 3
    /\ hwh.press[<<"KEYDOWN", <<1>>>>] = [pressed |-> TRUE, since |-> 3, holds |-> 1]
    /\ hwh.press[<<"AXISPRESS", <<0, 0, 1>>>>] = [pressed |-> TRUE, since |-> 2, holds |-> 1]
    /\ hwh.press[<<"MOUSEBUTTONDOWN", <<1>>>>] = [pressed |-> TRUE, since |-> 1, holds |-> 0]
    /\ hwh.press[<<"JOYBUTTONDOWN", <<0, 1>>>>] = NoPress
    /\ hwh.posted = {HoldEvent(<<"AXISPRESS", <<0, 0, 1>>>>)}
    /\ DOMAIN holder = {<<"MOUSEBUTTONDOWN", <<1>>>>}
    /\ holder[<<"MOUSEBUTTONDOWN", <<1>>>>] = 1

============================================================================
